---- MODULE Spec2Model ----
(***************************************************************************)
(* The player context of the music front end (PlayerProvider): the queue,  *)
(* the current song, the transport flag, shuffle / repeat, the recently    *)
(* played list and the single <audio> element the provider drives.         *)
(* Every handler of the provider is one action; a handler that calls       *)
(* playSong contains the whole of playSong.  The device (the media         *)
(* element) is modelled by its observable attributes and by the events it  *)
(* delivers: the outcome of a start request, the playback position         *)
(* advancing, and "ended".                                                  *)
(***************************************************************************)
EXTENDS Integers, Sequences, FiniteSets, TLC

VARIABLES
    currentSong,     \* useState(null): the track loaded, NoSong for null
    queue,           \* useState([]): sequence of tracks
    isPlaying,       \* useState(false)
    shuffle,         \* useState(false)
    repeat,          \* useState("off"): "off" | "all" | "one"
    recentlyPlayed,  \* useState(...): most recent first
    audio,           \* audioRef.current: [src, paused, currentTime]
    startPending,    \* an audio.play() promise of the element is unsettled
    toggleAwaiting,  \* a togglePlay call is suspended at `await audio.play()`
    lastOp,          \* the handler that ran last and the branch it took
    volume,          \* useState(70)
    isMobileDevice,  \* useState(false)
    touch,           \* what isMobile() answers on this device
    audioVolume,     \* audioRef.current.volume, in hundredths
    graph,           \* audioContextRef / gainNodeRef / isAudioContextSetRef
    storage,         \* localStorage, the five keys of the provider
    atStart,         \* localStorage as it was when the session started
    phase,           \* "mounting" | "rendering" | "settled" | "unmounted"
    pending,         \* state updates queued by effects for the next render
    currentTime,     \* useState(0): the position the context hands out
    duration,        \* useState(0): the duration the context hands out
    events,          \* events the element has queued and not yet delivered
    storageMode,     \* localStorage: "ok" | "full" (setItem throws) |
                     \* "denied" (getItem and setItem throw)
    resumeWait,      \* a togglePlay call suspended at `await ...resume()`,
                     \* with the isPlaying and volume of its render
    cardTimer,       \* SongCard's setTimeout(() => togglePlay(), 0) not yet
                     \* fired, with the isPlaying and volume of its render
    search           \* the Search page: its query, results and mode states,
                     \* its debounce timer and the requests in flight

vars == <<currentSong, queue, isPlaying, shuffle, repeat, recentlyPlayed,
          audio, startPending, toggleAwaiting, lastOp, volume, isMobileDevice,
          touch, audioVolume, graph, storage, atStart, phase, pending,
          currentTime, duration, events, storageMode, resumeWait,
          cardTimer, search>>

(***************************************************************************)
(* Bounds of the model.                                                    *)
(***************************************************************************)
NumTracks == 3        \* track identifiers are 1..NumTracks
MaxQueueLen == 3      \* enqueue commands are issued while the queue is shorter
MaxListLen == 2       \* length of the lists handed to enqueueAll / playQueue
MaxHistoryId == 22    \* identifiers played in the history specification
LevelBelow == 10      \* how far below 0 a level handed to setVolume goes
LevelAbove == 30      \* how far above 100 a level handed to setVolume goes

(***************************************************************************)
(* Program constants.                                                      *)
(***************************************************************************)
HistoryCap == 20          \* .slice(0, 20)
RestartThreshold == 3     \* audioRef.current.currentTime > 3
DefaultVolume == 70       \* useState(70)
FullVolume == 100         \* volume / 100: the level at which the element's volume is 1

(***************************************************************************)
(* Tracks.  A track is [id, url]; url = 0 stands for a missing locator     *)
(* (falsy song.url).  NoSong stands for null / undefined.                  *)
(***************************************************************************)
NoSong == [id |-> 0, url |-> 0]

Song(i) == [id |-> i, url |-> i]

Broken(i) == [id |-> i, url |-> 0]

TrackIds == 1..NumTracks

\* every identifier has a playable track; every second one also comes as a
\* track without a locator
Tracks ==
    {Song(i) : i \in TrackIds} \cup {Broken(i) : i \in {j \in TrackIds : j % 2 = 0}}

RECURSIVE SeqsUpTo(_, _)
SeqsUpTo(S, n) ==
    IF n = 0 THEN {<<>>}
    ELSE LET shorter == SeqsUpTo(S, n - 1)
         IN  shorter \cup {Append(s, x) : s \in {t \in shorter : Len(t) = n - 1}, x \in S}

TrackLists == SeqsUpTo(Tracks, MaxListLen)

\* The positions the element reports: the start, the restart threshold of
\* handlePrevious, and the end of the media just past it.
Duration == RestartThreshold + 1

Positions == {0, RestartThreshold, Duration}

Min(a, b) == IF a < b THEN a ELSE b

\* the levels handed to setVolume: inside 0..100, below and above
Levels == {0 - LevelBelow, 0, DefaultVolume \div 2, FullVolume, FullVolume + LevelAbove}

(***************************************************************************)
(* Array helpers of the handlers.                                          *)
(***************************************************************************)
\* arr.some((s) => s.id === id)
SomeId(arr, id) == \E i \in 1..Len(arr) : arr[i].id = id

\* arr.filter((s) => s.id !== id)
FilterOutId(arr, id) == SelectSeq(arr, LAMBDA s : s.id # id)

\* arr.slice(0, n)
Slice(arr, n) == SubSeq(arr, 1, Min(n, Len(arr)))

\* arr.findIndex((s) => s.id === id): zero-based, -1 when absent
FindIndex(arr, id) ==
    IF SomeId(arr, id)
    THEN (CHOOSE i \in 1..Len(arr) :
             /\ arr[i].id = id
             /\ \A j \in 1..(i - 1) : arr[j].id # id) - 1
    ELSE -1

\* arr[k] for a zero-based k: undefined (NoSong) outside the array
At(arr, k) == IF k >= 0 /\ k < Len(arr) THEN arr[k + 1] ELSE NoSong

(***************************************************************************)
(* localStorage and the conversions between values and stored text.        *)
(* The text under the three scalar keys is a string; getItem's null for an *)
(* absent key is the empty string here (both are falsy, and the code only  *)
(* tests `if (v)`).  The text under the two JSON keys is [form, value]:    *)
(* absent, text that JSON.parse rejects, or the JSON text of a list.       *)
(***************************************************************************)
Absent == ""

NoText == [form |-> "absent", value |-> <<>>]

NotJson == [form |-> "text", value |-> <<>>]

\* JSON.stringify(list)
Stringify(list) == [form |-> "json", value |-> list]

\* `stored ? ... : ...` / `if (q)`: the key holds non-empty text
Truthy(text) == text.form # "absent"

\* JSON.parse(text) throws
ParseThrows(text) == text.form = "text"

\* JSON.parse(text) where it does not throw
Parse(text) == text.value

\* `if (v)` for the text of a scalar key
Present(text) == text # Absent

\* the value of Number(v) for text that is no numeral
NaN == 0 - 1000

\* the numerals Number() reads back in the model
Numerals == (0 - FullVolume)..(2 * FullVolume)

\* Number(v)
NumberOf(text) ==
    IF \E n \in Numerals : ToString(n) = text
    THEN CHOOSE n \in Numerals : ToString(n) = text
    ELSE NaN

\* the text setItem stores for a number: String(volume)
StringOf(n) == IF n = NaN THEN "NaN" ELSE ToString(n)

\* the text setItem stores for a boolean: String(shuffle)
BoolText(b) == IF b THEN "true" ELSE "false"

\* `audio.volume = level / 100` does not throw: the element takes 0..1 only
ElementAccepts(level) == level # NaN /\ level >= 0 /\ level <= FullVolume

\* `gain.value = level / 100` does not throw: any finite number
GainAccepts(level) == level # NaN

\* no Web Audio graph yet: audioContextRef, gainNodeRef null, flag false
NoGraph == [attached |-> FALSE, gain |-> FullVolume, state |-> "none"]

\* no togglePlay call is waiting for the audio context to resume
NoWait == [waiting |-> FALSE, isPlaying |-> FALSE, volume |-> DefaultVolume]

\* no timer of a song card is waiting to fire
NoTimer == [set |-> FALSE, isPlaying |-> FALSE, volume |-> DefaultVolume]

\* an input value that is empty or shorter than two characters after trim;
\* also: no results, no timer, no request yet
ShortInput == 0

\* the inputs of at least two characters typed into the search field
SearchQueries == {1, 2}

\* the Search page after its first render: empty query, empty results, mode
\* "idle", no debounce timer, nothing requested
NoSearch ==
    [query |-> ShortInput, shown |-> ShortInput, mode |-> "idle",
     timer |-> ShortInput, issued |-> ShortInput, flight |-> {}]

\* no state update waiting for the next render
NoPending ==
    [has |-> {}, queue |-> <<>>, volume |-> DefaultVolume, shuffle |-> FALSE,
     repeat |-> "off", isMobileDevice |-> FALSE]

\* the state a render of the mounted provider leaves alone
deviceVars == <<volume, isMobileDevice, touch, atStart, pending, storageMode>>

\* the same, for steps that cannot unmount the provider
profileVars == <<deviceVars, phase>>

\* the position and duration states: only seekTo and the timeupdate /
\* loadedmetadata listeners set them
shownVars == <<currentTime, duration>>

(***************************************************************************)
(* Effects that run after a render in which their dependencies changed.    *)
(***************************************************************************)
\* variant: the history effect depends on the length of the list, so a
\* reordering of the history is not written
SaveEffectsByLength ==
    storage' =
        [queue   |-> IF queue' # queue THEN Stringify(queue') ELSE storage.queue,
         volume  |-> IF (volume' # volume \/ isMobileDevice' # isMobileDevice)
                        /\ ~isMobileDevice'
                     THEN StringOf(volume') ELSE storage.volume,
         shuffle |-> IF shuffle' # shuffle THEN BoolText(shuffle') ELSE storage.shuffle,
         repeat  |-> IF repeat' # repeat THEN repeat' ELSE storage.repeat,
         recent  |-> IF Len(recentlyPlayed') # Len(recentlyPlayed)
                     THEN Stringify(recentlyPlayed') ELSE storage.recent]

\* the five save effects: each writes its key when its state value changed
\* (the volume key only while isMobileDevice is false)
SaveEffects ==
    storage' =
        [queue   |-> IF queue' # queue THEN Stringify(queue') ELSE storage.queue,
         volume  |-> IF (volume' # volume \/ isMobileDevice' # isMobileDevice)
                        /\ ~isMobileDevice'
                     THEN StringOf(volume') ELSE storage.volume,
         shuffle |-> IF shuffle' # shuffle THEN BoolText(shuffle') ELSE storage.shuffle,
         repeat  |-> IF repeat' # repeat THEN repeat' ELSE storage.repeat,
         recent  |-> IF recentlyPlayed' # recentlyPlayed
                     THEN Stringify(recentlyPlayed') ELSE storage.recent]

\* some save effect runs after this render: the state it depends on changed
SaveWrites ==
    \/ queue' # queue
    \/ (volume' # volume \/ isMobileDevice' # isMobileDevice) /\ ~isMobileDevice'
    \/ shuffle' # shuffle
    \/ repeat' # repeat
    \/ recentlyPlayed' # recentlyPlayed

\* a save effect that runs while localStorage.setItem throws
SaveThrows == storageMode # "ok" /\ SaveWrites

\* the save effects of a render: setItem is called outside any try, so its
\* exception leaves the effect and React unmounts the tree
Saved ==
    /\ IF SaveThrows THEN storage' = storage ELSE SaveEffects
    /\ phase' = IF SaveThrows THEN "unmounted" ELSE phase

\* the render that follows a command or a listener of the mounted provider:
\* the save effects run, volume and device profile are as they were
Rendered ==
    /\ phase = "settled"
    /\ UNCHANGED deviceVars
    /\ UNCHANGED shownVars
    /\ Saved

\* a device event that changes nothing the provider persists
Delivered ==
    /\ phase = "settled"
    /\ UNCHANGED <<storage, audioVolume, resumeWait, cardTimer, search, graph, events>>
    /\ UNCHANGED profileVars
    /\ UNCHANGED shownVars

\* variant: the "already set" flag is not consulted
SetupAudioContextAgain ==
    IF isMobileDevice
    THEN \E outcome \in {"running", "suspended", "failed"} :
            graph' = IF outcome = "failed" THEN graph
                     ELSE [attached |-> TRUE, gain |-> FullVolume, state |-> outcome]
    ELSE UNCHANGED graph

\* setupAudioContext(): on a touch device without a graph, build
\* source -> gain -> destination once; the context comes up running or
\* suspended, or the construction fails and is caught
SetupAudioContext ==
    IF isMobileDevice /\ ~graph.attached
    THEN \E outcome \in {"running", "suspended", "failed"} :
            graph' = IF outcome = "failed" THEN graph
                     ELSE [attached |-> TRUE, gain |-> FullVolume, state |-> outcome]
    ELSE UNCHANGED graph

(***************************************************************************)
(* State updaters: the functions handed to the React state setters.        *)
(***************************************************************************)
\* variants of the updater: without the cut, without the filter, cutting
\* from the wrong end, and adding at the back
RecentlyPlayedUncut(prev, song) == <<song>> \o FilterOutId(prev, song.id)

RecentlyPlayedUnfiltered(prev, song) == Slice(<<song>> \o prev, HistoryCap)

RecentlyPlayedKeepsTail(prev, song) ==
    LET all == <<song>> \o FilterOutId(prev, song.id)
    IN  IF Len(all) > HistoryCap THEN <<song>> \o SubSeq(all, 3, Len(all)) ELSE all

RecentlyPlayedAppends(prev, song) ==
    Slice(FilterOutId(prev, song.id) \o <<song>>, HistoryCap)

\* setRecentlyPlayed((prev) => [song, ...prev.filter(...)].slice(0, 20))
RecentlyPlayedUpdater(prev, song) ==
    Slice(<<song>> \o FilterOutId(prev, song.id), HistoryCap)

\* variant: appends without looking for the identifier
AddToQueueAlways(p, song) == Append(p, song)

\* setQueue((p) => (p.some((s) => s.id === song.id) ? p : [...p, song]))
AddToQueueUpdater(p, song) ==
    IF SomeId(p, song.id) THEN p ELSE Append(p, song)

\* setQueue((p) => [...p, ...songs.filter((s) => !p.some((x) => x.id === s.id))])
AddMultipleUpdater(p, songs) ==
    p \o SelectSeq(songs, LAMBDA s : ~SomeId(p, s.id))

\* setQueue((p) => p.filter((s) => s.id !== id))
RemoveUpdater(p, id) == FilterOutId(p, id)

\* variant: the toggle switches between two modes only
RepeatUpdaterTwoModes(p) == IF p = "off" THEN "all" ELSE "off"

\* setRepeat((p) => (p === "off" ? "all" : p === "all" ? "one" : "off"))
RepeatUpdater(p) == IF p = "off" THEN "all" ELSE IF p = "all" THEN "one" ELSE "off"

(***************************************************************************)
(* playSong and the selection made by handleNext / handlePrevious.         *)
(***************************************************************************)
\* what lastOp records: the handler, the branch it took and, when playSong
\* went through, whether the song's identifier was already in the recently
\* played list, whether that list was at capacity, and whether events of
\* the element were still waiting when the new source was loaded
OpRecord(op, branch) ==
    [op |-> op, branch |-> branch, known |-> FALSE, full |-> FALSE,
     dropped |-> FALSE, superseded |-> FALSE]

\* variant: the guard only tests `!song`
LoadsAnyObject(song) == song # NoSong

\* the guard of playSong: `if (!song || !song.url) return` does not return
Loads(song) == song # NoSong /\ song.url # 0

\* variant: the index after the next one
NextIndexSkips(q, cur, shuf, r) == IF shuf THEN r ELSE FindIndex(q, cur.id) + 2

\* variant: without the current track in the queue there is no next index
NextIndexNeedsCurrent(q, cur, shuf, r) ==
    IF shuf THEN r
    ELSE IF SomeId(q, cur.id) THEN FindIndex(q, cur.id) + 1 ELSE Len(q)

\* variant: the random index is rounded up
NextIndexShufflesPast(q, cur, shuf, r) ==
    IF shuf THEN r + 1 ELSE FindIndex(q, cur.id) + 1

\* the index handleNext hands to queue[...]: r is the value of
\* Math.floor(Math.random() * queue.length)
NextIndex(q, cur, shuf, r) == IF shuf THEN r ELSE FindIndex(q, cur.id) + 1

\* variant: wraps to the front whatever the repeat mode
WrapIndexAlways(nextIndex, len, rep) == IF nextIndex >= len THEN 0 ELSE nextIndex

\* if (nextIndex >= queue.length) { if (repeat === "all") nextIndex = 0;
\* else return; }: the index that goes on to playSong, NoIndex for `return`
NoIndex == 0 - 1

WrapIndex(nextIndex, len, rep) ==
    IF nextIndex >= len
    THEN IF rep = "all" THEN 0 ELSE NoIndex
    ELSE nextIndex

\* variant: the index of the current track itself
PreviousIndexSame(q, cur) == FindIndex(q, cur.id)

\* the index handlePrevious hands to queue[...]
PreviousIndex(q, cur) == FindIndex(q, cur.id) - 1

\* variant: restarts only later
RestartsLate(position) == position > RestartThreshold + 1

\* if (audioRef.current.currentTime > 3)
Restarts(position) == position > RestartThreshold

\* variant: the position is left where it is
RestartedElementUnmoved(au) == au

\* audioRef.current.currentTime = 0
RestartedElement(au) == [au EXCEPT !.currentTime = 0]

\* variant: the tasks the element had queued survive the load
PendingAfterLoadKept(evs) == evs

\* audio.src = song.url; audio.load(): the element starts loading the new
\* source and removes the tasks it had queued for the old one
PendingAfterLoad(evs) == {}

\* variant: the play() promise the element owes survives the load
SupersededStartKept(awaited) == awaited

\* audio.pause() and audio.load() reject the play() promises the element
\* still owes (the awaiting togglePlay lands in its catch, which only logs):
\* whether a start stays requested after them
SupersededStart(awaited) == FALSE

\* audio.pause(); audio.src = song.url; audio.load()
LoadedElement(song) == [src |-> song.url, paused |-> TRUE, currentTime |-> 0]

\* playSong(song) called inside handler `op` whose element state is `au`:
\* everything playSong assigns, and the record of the call.
PlaySongCall(op, song, au) ==
    IF Loads(song)
    THEN /\ audio' = LoadedElement(song)
         /\ startPending' = SupersededStart(startPending)
         /\ toggleAwaiting' = SupersededStart(toggleAwaiting)
         /\ currentSong' = song
         /\ isPlaying' = FALSE
         /\ recentlyPlayed' = RecentlyPlayedUpdater(recentlyPlayed, song)
         /\ SetupAudioContext
         /\ events' = PendingAfterLoad(events)
         /\ lastOp' = [op |-> op, branch |-> "loaded",
                        known |-> SomeId(recentlyPlayed, song.id),
                        full |-> Len(recentlyPlayed) = HistoryCap,
                        dropped |-> events # {},
                        superseded |-> toggleAwaiting]
    ELSE /\ audio' = au
         /\ UNCHANGED <<startPending, toggleAwaiting, currentSong, isPlaying,
                        recentlyPlayed, graph, events>>
         /\ lastOp' = OpRecord(op, "invalidTrack")

\* a handler branch that returns without touching the session
Returns(op, branch, au) ==
    /\ audio' = au
    /\ UNCHANGED <<startPending, toggleAwaiting, currentSong, isPlaying,
                   recentlyPlayed, graph, events>>
    /\ lastOp' = OpRecord(op, branch)

\* the body of handleNext, run as command or as the "ended" listener
HandleNextBody(op, au) ==
    IF Len(queue) = 0
    THEN Returns(op, "emptyQueue", au)
    ELSE IF repeat = "one"
    THEN /\ audio' = RestartedElement(au)
         /\ startPending' = TRUE
         /\ UNCHANGED <<toggleAwaiting, currentSong, isPlaying, recentlyPlayed,
                        graph, events>>
         /\ lastOp' = OpRecord(op, "repeatOne")
    \* Math.random() is drawn only when shuffle is on
    ELSE \E r \in IF shuffle THEN 0..(Len(queue) - 1) ELSE {0} :
            LET nextIndex == WrapIndex(NextIndex(queue, currentSong, shuffle, r),
                                       Len(queue), repeat)
            IN  IF nextIndex = NoIndex
                THEN Returns(op, "noNext", au)
                ELSE PlaySongCall(op, At(queue, nextIndex), au)

(***************************************************************************)
(* Commands of the provider.                                               *)
(***************************************************************************)
PlaySong(song) ==
    /\ PlaySongCall("playSong", song, audio)
    /\ UNCHANGED <<queue, shuffle, repeat, audioVolume, resumeWait, cardTimer, search>>
    /\ Rendered

\* togglePlay from `audio.muted = false` on, with the volume and isPlaying of
\* the render whose togglePlay it is.  `audio.volume = volume / 100` throws
\* for a level the element does not take, and the catch ends the call before
\* it pauses or starts anything.
TogglePlayBody(vol, playing) ==
    IF ~ElementAccepts(vol)
    THEN /\ UNCHANGED <<audio, audioVolume, startPending, toggleAwaiting,
                        isPlaying>>
         /\ lastOp' = OpRecord("togglePlay", "caught")
    ELSE /\ audioVolume' = vol
         /\ IF playing
            THEN /\ audio' = [audio EXCEPT !.paused = TRUE]
                 /\ startPending' = FALSE
                 /\ toggleAwaiting' = FALSE
                 /\ isPlaying' = FALSE
                 /\ lastOp' = OpRecord("togglePlay", "pause")
            ELSE /\ startPending' = TRUE
                 /\ toggleAwaiting' = TRUE
                 /\ UNCHANGED <<audio, isPlaying>>
                 /\ lastOp' = OpRecord("togglePlay", "play")

\* a call of togglePlay from the render whose volume and isPlaying are `vol`
\* and `playing`: with a suspended audio context the call stops at
\* `await audioContextRef.current.resume()` (one such call at a time is
\* followed); otherwise it runs through to pause() or to `await audio.play()`
TogglePlayCall(vol, playing) ==
    IF graph.state = "suspended"
    THEN /\ ~resumeWait.waiting
         /\ resumeWait' = [waiting |-> TRUE, isPlaying |-> playing,
                           volume |-> vol]
         /\ UNCHANGED <<audio, audioVolume, startPending, toggleAwaiting,
                        isPlaying>>
         /\ lastOp' = OpRecord("togglePlay", "awaitsResume")
    ELSE /\ TogglePlayBody(vol, playing)
         /\ UNCHANGED resumeWait

\* togglePlay called by a control of the current render
TogglePlay ==
    /\ TogglePlayCall(volume, isPlaying)
    /\ UNCHANGED <<currentSong, queue, shuffle, repeat, recentlyPlayed, graph,
                   events, cardTimer, search>>
    /\ Rendered

\* resume() resolves: the context runs and the waiting togglePlay goes on
ResumeResolves ==
    /\ resumeWait.waiting
    /\ graph' = [graph EXCEPT !.state = "running"]
    /\ resumeWait' = NoWait
    /\ TogglePlayBody(resumeWait.volume, resumeWait.isPlaying)
    /\ UNCHANGED <<currentSong, queue, shuffle, repeat, recentlyPlayed, events,
                   cardTimer, search>>
    /\ Rendered

\* SongCard.handlePlay: on the card of the current track togglePlay(); on
\* another card playSong(song) and setTimeout(() => togglePlay(), 0), whose
\* togglePlay is the one of the render the card was tapped in (one timer at
\* a time is followed)
CardPlay(song) ==
    IF currentSong.id = song.id
    THEN TogglePlay
    ELSE /\ ~cardTimer.set
         /\ PlaySongCall("cardPlay", song, audio)
         /\ cardTimer' = [set |-> TRUE, isPlaying |-> isPlaying,
                          volume |-> volume]
         /\ UNCHANGED <<queue, shuffle, repeat, audioVolume, resumeWait,
                        search>>
         /\ Rendered

\* the timer of the card fires: its togglePlay runs
TimerFires ==
    /\ cardTimer.set
    /\ cardTimer' = NoTimer
    /\ TogglePlayCall(cardTimer.volume, cardTimer.isPlaying)
    /\ UNCHANGED <<currentSong, queue, shuffle, repeat, recentlyPlayed, graph,
                   events, search>>
    /\ Rendered

HandleNext ==
    /\ HandleNextBody("handleNext", audio)
    /\ UNCHANGED <<queue, shuffle, repeat, audioVolume, resumeWait, cardTimer, search>>
    /\ Rendered

HandlePrevious ==
    /\ IF Restarts(audio.currentTime)
       THEN /\ audio' = RestartedElement(audio)
            /\ UNCHANGED <<startPending, toggleAwaiting, currentSong, isPlaying,
                           recentlyPlayed, graph, events>>
            /\ lastOp' = OpRecord("handlePrevious", "restart")
       ELSE IF FindIndex(queue, currentSong.id) > 0
            THEN PlaySongCall("handlePrevious",
                              At(queue, PreviousIndex(queue, currentSong)), audio)
            ELSE Returns("handlePrevious", "noPrevious", audio)
    /\ UNCHANGED <<queue, shuffle, repeat, audioVolume, resumeWait, cardTimer, search>>
    /\ Rendered

QueueOnly(op, branch) ==
    /\ lastOp' = OpRecord(op, branch)
    /\ UNCHANGED <<currentSong, isPlaying, shuffle, repeat, recentlyPlayed,
                   audio, startPending, toggleAwaiting, audioVolume, resumeWait, cardTimer, search,
                   graph, events>>
    /\ Rendered

AddToQueue(song) ==
    /\ Len(queue) < MaxQueueLen \/ SomeId(queue, song.id)
    /\ queue' = AddToQueueUpdater(queue, song)
    /\ QueueOnly("addToQueue",
                 IF SomeId(queue, song.id) THEN "present" ELSE "appended")

AddMultipleToQueue(songs) ==
    /\ Len(queue) + Len(songs) <= MaxQueueLen
    /\ queue' = AddMultipleUpdater(queue, songs)
    /\ QueueOnly("addMultipleToQueue", "set")

RemoveFromQueue(id) ==
    /\ queue' = RemoveUpdater(queue, id)
    /\ QueueOnly("removeFromQueue", "set")

\* variant: clearing the queue also drops the current track
ClearQueueStops ==
    /\ queue' = <<>>
    /\ currentSong' = NoSong
    /\ lastOp' = OpRecord("clearQueue", "set")
    /\ UNCHANGED <<isPlaying, shuffle, repeat, recentlyPlayed, audio,
                   startPending, toggleAwaiting, audioVolume, resumeWait,
                   cardTimer, search, graph, events>>
    /\ Rendered

ClearQueue ==
    /\ queue' = <<>>
    /\ QueueOnly("clearQueue", "set")

\* playQueue(songs, index): songs[index] is undefined outside the list
PlayQueue(songs, index) ==
    /\ queue' = songs
    /\ PlaySongCall("playQueue", At(songs, index), audio)
    /\ UNCHANGED <<shuffle, repeat, audioVolume, resumeWait, cardTimer, search>>
    /\ Rendered

\* what the element's currentTime reads after `audio.currentTime = t`: with a
\* source loaded the seek lands inside the media, without one the element
\* keeps the value as its start position
Sought(au, t) ==
    IF au.src = 0 THEN t
    ELSE IF t < 0 THEN 0 ELSE IF t > Duration THEN Duration ELSE t

\* seekTo(t): audioRef.current.currentTime = t; setCurrentTime(t)
SeekTo(t) ==
    /\ audio' = [audio EXCEPT !.currentTime = Sought(audio, t)]
    /\ currentTime' = t
    /\ lastOp' = OpRecord("seekTo", "set")
    /\ UNCHANGED <<currentSong, queue, isPlaying, shuffle, repeat, recentlyPlayed,
                   startPending, toggleAwaiting, audioVolume, resumeWait, cardTimer, search,
                   graph, events, duration>>
    /\ phase = "settled"
    /\ UNCHANGED deviceVars
    /\ Saved

ToggleShuffle ==
    /\ shuffle' = ~shuffle
    /\ lastOp' = OpRecord("toggleShuffle", "set")
    /\ UNCHANGED <<currentSong, queue, isPlaying, repeat, recentlyPlayed,
                   audio, startPending, toggleAwaiting, audioVolume, resumeWait, cardTimer, search,
                   graph, events>>
    /\ Rendered

ToggleRepeat ==
    /\ repeat' = RepeatUpdater(repeat)
    /\ lastOp' = OpRecord("toggleRepeat", "set")
    /\ UNCHANGED <<currentSong, queue, isPlaying, shuffle, recentlyPlayed,
                   audio, startPending, toggleAwaiting, audioVolume, resumeWait, cardTimer, search,
                   graph, events>>
    /\ Rendered

\* the volume effect throws for this level on this profile
VolumeEffectThrows(level, mobile) ==
    IF mobile /\ graph.attached THEN ~GainAccepts(level) ELSE ~ElementAccepts(level)

\* the volume effect: the gain of the graph on a touch device that has one,
\* the element's own volume otherwise
VolumeEffect(level, mobile) ==
    IF VolumeEffectThrows(level, mobile)
    THEN UNCHANGED <<audioVolume, graph>>
    ELSE IF mobile /\ graph.attached
         THEN graph' = [graph EXCEPT !.gain = level] /\ UNCHANGED audioVolume
         ELSE audioVolume' = level /\ UNCHANGED graph

\* setVolume is the state setter itself: the level is stored as given.  The
\* render that follows runs the volume save effect and the volume effect;
\* an exception of that effect is caught by nothing and React unmounts the
\* tree.
SetVolume(level) ==
    /\ phase = "settled"
    /\ volume' = level
    /\ UNCHANGED <<currentSong, queue, isPlaying, shuffle, repeat, recentlyPlayed,
                   audio, startPending, toggleAwaiting, isMobileDevice, touch,
                   atStart, pending, events, storageMode, resumeWait, cardTimer, search>>
    /\ UNCHANGED shownVars
    /\ IF SaveThrows THEN storage' = storage ELSE SaveEffects
    /\ IF level = volume
       THEN /\ UNCHANGED <<audioVolume, graph, phase>>
            /\ lastOp' = OpRecord("setVolume", "same")
       ELSE /\ VolumeEffect(level, isMobileDevice)
            /\ phase' = IF VolumeEffectThrows(level, isMobileDevice) \/ SaveThrows
                        THEN "unmounted" ELSE "settled"
            /\ lastOp' = OpRecord("setVolume",
                                  IF VolumeEffectThrows(level, isMobileDevice)
                                  THEN "thrown" ELSE "set")

(***************************************************************************)
(* The device: what the media element does between handlers.               *)
(***************************************************************************)
\* variant: the awaiting togglePlay never gets to setIsPlaying(true)
StartSucceedsUnreported ==
    /\ startPending
    /\ audio.src # 0
    /\ audio' = [audio EXCEPT !.paused = FALSE]
    /\ startPending' = FALSE
    /\ toggleAwaiting' = FALSE
    /\ lastOp' = OpRecord("startSucceeds", "resolved")
    /\ UNCHANGED <<currentSong, queue, isPlaying, shuffle, repeat, recentlyPlayed>>
    /\ Delivered

\* the start request is granted: the element plays, awaiting togglePlay
\* calls resume with setIsPlaying(true)
StartSucceeds ==
    /\ startPending
    /\ audio.src # 0
    /\ audio' = [audio EXCEPT !.paused = FALSE]
    /\ startPending' = FALSE
    /\ toggleAwaiting' = FALSE
    /\ isPlaying' = IF toggleAwaiting THEN TRUE ELSE isPlaying
    /\ lastOp' = OpRecord("startSucceeds", "resolved")
    /\ UNCHANGED <<currentSong, queue, shuffle, repeat, recentlyPlayed>>
    /\ Delivered

\* variant: setIsPlaying(true) runs although the start was refused
StartRejectedReportsPlaying ==
    /\ startPending
    /\ audio.paused
    /\ startPending' = FALSE
    /\ toggleAwaiting' = FALSE
    /\ isPlaying' = TRUE
    /\ lastOp' = OpRecord("startRejected", "rejected")
    /\ UNCHANGED <<currentSong, queue, shuffle, repeat, recentlyPlayed, audio>>
    /\ Delivered

\* the start request is refused (no gesture, no source): togglePlay's catch
StartRejected ==
    /\ startPending
    /\ audio.paused
    /\ startPending' = FALSE
    /\ toggleAwaiting' = FALSE
    /\ lastOp' = OpRecord("startRejected", "rejected")
    /\ UNCHANGED <<currentSong, queue, isPlaying, shuffle, repeat, recentlyPlayed,
                   audio>>
    /\ Delivered

\* playback moves the position forward
TimeAdvances ==
    /\ audio.src # 0
    /\ ~audio.paused
    /\ \E t \in Positions :
          /\ t > audio.currentTime
          /\ audio' = [audio EXCEPT !.currentTime = t]
    /\ lastOp' = OpRecord("timeupdate", "advanced")
    /\ UNCHANGED <<currentSong, queue, isPlaying, shuffle, repeat, recentlyPlayed,
                   startPending, toggleAwaiting>>
    /\ Delivered

\* the element queues a task that will fire `name` at it: timeupdate while
\* it plays, after a seek and after a load moved the position; loadedmetadata
\* once the duration of the source is known
Emits(name) ==
    /\ audio.src # 0
    /\ events' = events \cup {[name |-> name, src |-> audio.src]}
    /\ lastOp' = OpRecord("emits", name)
    /\ UNCHANGED <<currentSong, queue, isPlaying, shuffle, repeat, recentlyPlayed,
                   audio, startPending, toggleAwaiting, storage, audioVolume,
                   resumeWait, cardTimer, search, graph>>
    /\ phase = "settled"
    /\ UNCHANGED profileVars
    /\ UNCHANGED shownVars

\* a queued event is delivered to its listener, which reads the element as
\* it is now: t = () => setCurrentTime(audio.currentTime),
\* d = () => setDuration(audio.duration)
Listener(name) ==
    /\ \E e \in events :
          /\ e.name = name
          /\ events' = events \ {e}
    /\ currentTime' = IF name = "timeupdate" THEN audio.currentTime ELSE currentTime
    /\ duration' = IF name = "loadedmetadata" THEN Duration ELSE duration
    /\ lastOp' = OpRecord(name, "delivered")
    /\ UNCHANGED <<currentSong, queue, isPlaying, shuffle, repeat, recentlyPlayed,
                   audio, startPending, toggleAwaiting, storage, audioVolume,
                   resumeWait, cardTimer, search, graph>>
    /\ phase = "settled"
    /\ UNCHANGED profileVars

\* the element fails to fetch or decode its source: playback stops, a
\* pending play() promise is rejected (togglePlay's catch logs it) and the
\* error event finds no listener
MediaError ==
    /\ audio.src # 0
    /\ audio' = [audio EXCEPT !.paused = TRUE]
    /\ startPending' = FALSE
    /\ toggleAwaiting' = FALSE
    /\ lastOp' = OpRecord("error", IF startPending THEN "startFailed" ELSE "unheard")
    /\ UNCHANGED <<currentSong, queue, isPlaying, shuffle, repeat, recentlyPlayed>>
    /\ Delivered

\* playback reaches the end of the media: the element pauses itself at the
\* duration and the "ended" listener runs handleNext
Ended ==
    /\ audio.src # 0
    /\ ~audio.paused
    /\ HandleNextBody("ended", [audio EXCEPT !.paused = TRUE,
                                             !.currentTime = Duration])
    /\ UNCHANGED <<queue, shuffle, repeat, audioVolume, resumeWait, cardTimer, search>>
    /\ Rendered

(***************************************************************************)
(* Startup.  The session starts with whatever localStorage holds, on a     *)
(* pointer-only or a touch-capable device.  The first state is the one     *)
(* after the first render (useState initial values, the history read by    *)
(* its initializer); then the effects of the first commit run, and the     *)
(* state updates they queued are rendered, commit after commit, until no   *)
(* effect queues a change.                                                 *)
(***************************************************************************)
\* an object that is no track, such as {}: no id, no url
NotATrack == [id |-> 0, url |-> 0]

\* what the two JSON keys may hold: nothing, text that is not JSON, lists of
\* tracks, and a list of something else
StoredLists ==
    {NoText, NotJson, Stringify(<<>>), Stringify(<<Song(1)>>),
     Stringify(<<Song(1), Song(2)>>), Stringify(<<NotATrack>>)}

StoredVolumes == {Absent, "abc"} \cup {StringOf(level) : level \in Levels}

StoredFlags == {Absent, "true", "false", "yes"}

StoredModes == {Absent, "off", "all", "one", "loop"}

StartStorages ==
    [queue : StoredLists, volume : StoredVolumes, shuffle : StoredFlags,
     repeat : StoredModes, recent : StoredLists]

\* useState(() => { try { stored ? JSON.parse(stored) : [] } catch { [] } })
HistoryInitializer(text) ==
    IF Truthy(text) /\ ~ParseThrows(text) THEN Parse(text) ELSE <<>>

\* the load effect: the state updates it queues, read from `store` while
\* isMobileDevice is `mobile`
LoadEffect(store, mobile) ==
    LET hasQueue   == Truthy(store.queue) /\ ~ParseThrows(store.queue)
        hasVolume  == ~mobile /\ Present(store.volume)
        hasShuffle == Present(store.shuffle)
        hasRepeat  == Present(store.repeat)
    IN  [has     |-> (IF hasQueue THEN {"queue"} ELSE {})
                     \cup (IF hasVolume THEN {"volume"} ELSE {})
                     \cup (IF hasShuffle THEN {"shuffle"} ELSE {})
                     \cup (IF hasRepeat THEN {"repeat"} ELSE {}),
         queue   |-> IF hasQueue THEN Parse(store.queue) ELSE <<>>,
         volume  |-> IF hasVolume THEN NumberOf(store.volume) ELSE DefaultVolume,
         shuffle |-> IF hasShuffle THEN store.shuffle = "true" ELSE FALSE,
         repeat  |-> IF hasRepeat THEN store.repeat ELSE "off",
         isMobileDevice |-> FALSE]

\* the value a state has after the queued update, if any, is applied
After(p, key, current) == IF key \in p.has THEN p[key] ELSE current

\* React renders again: a new queue array was set, or a setter was handed a
\* value that differs from the state
NeedsRender(p, v, s, r, m) ==
    \/ "queue" \in p.has
    \/ After(p, "volume", v) # v
    \/ After(p, "shuffle", s) # s
    \/ After(p, "repeat", r) # r
    \/ After(p, "isMobileDevice", m) # m

InitStartup ==
    /\ touch \in BOOLEAN
    /\ storage \in StartStorages
    /\ atStart = storage
    /\ currentSong = NoSong
    /\ queue = <<>>
    /\ isPlaying = FALSE
    /\ volume = DefaultVolume
    /\ shuffle = FALSE
    /\ repeat = "off"
    /\ isMobileDevice = FALSE
    /\ recentlyPlayed = HistoryInitializer(storage.recent)
    /\ audio = [src |-> 0, paused |-> TRUE, currentTime |-> 0]
    /\ audioVolume = FullVolume
    /\ graph = NoGraph
    /\ startPending = FALSE
    /\ toggleAwaiting = FALSE
    /\ phase = "mounting"
    /\ pending = NoPending
    /\ storageMode = "ok"
    /\ lastOp = OpRecord("init", "init")
    /\ currentTime = 0
    /\ duration = 0
    /\ events = {}
    /\ resumeWait = NoWait
    /\ cardTimer = NoTimer
    /\ search = NoSearch

\* the effects of the first commit, in the order they are declared: detect
\* mobile, load saved state, the five save effects, the volume effect
MountEffects ==
    /\ phase = "mounting"
    /\ storageMode = "ok"
    /\ LET loaded == LoadEffect(storage, isMobileDevice)
           queued == [loaded EXCEPT !.has = @ \cup {"isMobileDevice"},
                                    !.isMobileDevice = touch]
           again == NeedsRender(queued, volume, shuffle, repeat, isMobileDevice)
       IN  /\ pending' = IF again THEN queued ELSE NoPending
           /\ phase' = IF again THEN "rendering" ELSE "settled"
    /\ storage' = [queue   |-> Stringify(queue),
                   volume  |-> IF ~isMobileDevice THEN StringOf(volume)
                               ELSE storage.volume,
                   shuffle |-> BoolText(shuffle),
                   repeat  |-> repeat,
                   recent  |-> Stringify(recentlyPlayed)]
    /\ VolumeEffect(volume, isMobileDevice)
    /\ lastOp' = OpRecord("mount", "committed")
    /\ UNCHANGED <<currentSong, queue, isPlaying, volume, shuffle, repeat,
                   isMobileDevice, recentlyPlayed, audio, startPending,
                   toggleAwaiting, touch, atStart, events, storageMode,
                   resumeWait, cardTimer, search>>
    /\ UNCHANGED shownVars

\* the render of the queued updates and the effects whose dependencies
\* changed, in the order they are declared: load saved state (it depends on
\* isMobileDevice), the save effects, the volume effect.  An exception of
\* the volume effect unmounts the tree.
Rerender ==
    /\ phase = "rendering"
    /\ LET q2 == After(pending, "queue", queue)
           v2 == After(pending, "volume", volume)
           s2 == After(pending, "shuffle", shuffle)
           r2 == After(pending, "repeat", repeat)
           m2 == After(pending, "isMobileDevice", isMobileDevice)
           profileChanged == m2 # isMobileDevice
           volumeDeps == v2 # volume \/ profileChanged
           throws == volumeDeps /\ VolumeEffectThrows(v2, m2)
           queued == IF profileChanged THEN LoadEffect(storage, m2) ELSE NoPending
           again == ~throws /\ NeedsRender(queued, v2, s2, r2, m2)
       IN  /\ queue' = q2
           /\ volume' = v2
           /\ shuffle' = s2
           /\ repeat' = r2
           /\ isMobileDevice' = m2
           /\ storage' =
                 [queue   |-> IF "queue" \in pending.has THEN Stringify(q2)
                              ELSE storage.queue,
                  volume  |-> IF volumeDeps /\ ~m2 THEN StringOf(v2)
                              ELSE storage.volume,
                  shuffle |-> IF s2 # shuffle THEN BoolText(s2) ELSE storage.shuffle,
                  repeat  |-> IF r2 # repeat THEN r2 ELSE storage.repeat,
                  recent  |-> storage.recent]
           /\ IF volumeDeps THEN VolumeEffect(v2, m2)
              ELSE UNCHANGED <<audioVolume, graph>>
           /\ pending' = IF again THEN queued ELSE NoPending
           /\ phase' = IF throws THEN "unmounted"
                       ELSE IF again THEN "rendering" ELSE "settled"
           /\ lastOp' = OpRecord("render", IF throws THEN "thrown" ELSE "committed")
    /\ UNCHANGED <<currentSong, isPlaying, recentlyPlayed, audio, startPending,
                   toggleAwaiting, touch, atStart, events, storageMode,
                   resumeWait, cardTimer, search>>
    /\ UNCHANGED shownVars

\* the first commit while localStorage throws: the load effect gets past
\* its try around the queue and throws at the next getItem ("denied"), the
\* save effects throw at setItem; the detect effect and the volume effect
\* run, and React unmounts the tree for the exceptions
MountEffectsStorageFails ==
    /\ phase = "mounting"
    /\ storageMode # "ok"
    /\ storage' = storage
    /\ VolumeEffect(volume, isMobileDevice)
    /\ pending' = NoPending
    /\ phase' = "unmounted"
    /\ lastOp' = OpRecord("mount", "thrown")
    /\ UNCHANGED <<currentSong, queue, isPlaying, volume, shuffle, repeat,
                   isMobileDevice, recentlyPlayed, audio, startPending,
                   toggleAwaiting, touch, atStart, events, storageMode,
                   resumeWait, cardTimer, search>>
    /\ UNCHANGED shownVars

\* localStorage stops taking writes during the session (quota exceeded)
StorageFills ==
    /\ phase = "settled"
    /\ storageMode = "ok"
    /\ storageMode' = "full"
    /\ lastOp' = OpRecord("storage", "full")
    /\ UNCHANGED <<currentSong, queue, isPlaying, shuffle, repeat, recentlyPlayed,
                   audio, startPending, toggleAwaiting, volume, isMobileDevice,
                   touch, audioVolume, resumeWait, cardTimer, search, graph, storage, atStart, phase,
                   pending, events>>
    /\ UNCHANGED shownVars

NextStartup ==
    \/ MountEffects
    \/ Rerender

SpecStartup == InitStartup /\ [][NextStartup]_vars

(***************************************************************************)
(* The provider after construction, and its behaviours.                    *)
(***************************************************************************)
\* localStorage with none of the five keys
EmptyStorage ==
    [queue |-> NoText, volume |-> Absent, shuffle |-> Absent, repeat |-> Absent,
     recent |-> NoText]

\* the provider once its startup has settled on a device of the given
\* profile: volume, shuffle, repeat and history at their defaults, every
\* key written by its save effect (the volume key by the first commit, in
\* which isMobileDevice is still false)
SettledDefaults(isTouch) ==
    /\ volume = DefaultVolume
    /\ isMobileDevice = isTouch
    /\ touch = isTouch
    /\ audioVolume = DefaultVolume
    /\ graph = NoGraph
    /\ storage = [queue |-> Stringify(queue), volume |-> StringOf(DefaultVolume),
                  shuffle |-> BoolText(FALSE), repeat |-> "off",
                  recent |-> Stringify(<<>>)]
    /\ phase = "settled"
    /\ pending = NoPending
    /\ storageMode = "ok"

Init ==
    /\ currentSong = NoSong
    /\ queue = <<>>
    /\ isPlaying = FALSE
    /\ shuffle = FALSE
    /\ repeat = "off"
    /\ recentlyPlayed = <<>>
    /\ audio = [src |-> 0, paused |-> TRUE, currentTime |-> 0]
    /\ startPending = FALSE
    /\ toggleAwaiting = FALSE
    /\ lastOp = OpRecord("init", "init")
    /\ currentTime = 0
    /\ duration = 0
    /\ events = {}
    /\ resumeWait = NoWait
    /\ cardTimer = NoTimer
    /\ search = NoSearch
    /\ SettledDefaults(FALSE)
    /\ atStart = EmptyStorage

Next ==
    \/ \E song \in Tracks \cup {NoSong} : PlaySong(song)
    \/ TogglePlay
    \/ HandleNext
    \/ HandlePrevious
    \/ \E song \in Tracks : AddToQueue(song)
    \/ \E songs \in TrackLists : AddMultipleToQueue(songs)
    \/ \E id \in TrackIds : RemoveFromQueue(id)
    \/ ClearQueue
    \/ \E songs \in TrackLists : \E index \in 0..MaxListLen : PlayQueue(songs, index)
    \/ ToggleShuffle
    \/ ToggleRepeat
    \/ \E level \in {0, DefaultVolume, FullVolume} : SetVolume(level)
    \/ StartSucceeds
    \/ StartRejected
    \/ TimeAdvances
    \/ Ended
    \/ MountEffects
    \/ Rerender

Spec == Init /\ [][Next]_vars

(***************************************************************************)
(* Navigation: the session starts with a queue already in place (restored  *)
(* from storage or built by earlier enqueue commands) and is then driven   *)
(* by play, togglePlay, next, previous, the mode toggles and the device.   *)
(***************************************************************************)
\* queues holding the identifiers 1..k in order, and those queues followed
\* by a repeat of one of their entries (as playQueue or addMultipleToQueue
\* leave them when the list repeats an identifier)
NavQueues ==
    LET inOrder == {q \in SeqsUpTo(Tracks, MaxQueueLen) :
                       \A i \in 1..Len(q) : q[i].id = i}
    IN  inOrder \cup UNION {{Append(q, q[j]) : j \in 1..Len(q)} :
                              q \in {p \in inOrder : Len(p) < MaxQueueLen}}

InitNav ==
    /\ queue \in NavQueues
    /\ currentSong = NoSong
    /\ isPlaying = FALSE
    /\ shuffle = FALSE
    /\ repeat = "off"
    /\ recentlyPlayed = <<>>
    /\ audio = [src |-> 0, paused |-> TRUE, currentTime |-> 0]
    /\ startPending = FALSE
    /\ toggleAwaiting = FALSE
    /\ lastOp = OpRecord("init", "init")
    /\ currentTime = 0
    /\ duration = 0
    /\ events = {}
    /\ resumeWait = NoWait
    /\ cardTimer = NoTimer
    /\ search = NoSearch
    /\ SettledDefaults(FALSE)
    /\ atStart = [EmptyStorage EXCEPT !.queue = Stringify(queue)]

NextNav ==
    \/ \E song \in {track \in Tracks : Loads(track)} : PlaySong(song)
    \/ TogglePlay
    \/ HandleNext
    \/ HandlePrevious
    \/ ToggleShuffle
    \/ ToggleRepeat
    \/ StartSucceeds
    \/ StartRejected
    \/ TimeAdvances
    \/ Ended

SpecNav == InitNav /\ [][NextNav]_vars

(***************************************************************************)
(* Shuffle: the navigation session without previous(), driven by play,     *)
(* togglePlay, next, the mode toggles, a start that succeeds and the end   *)
(* of the media.                                                           *)
(***************************************************************************)
NextShuffle ==
    \/ \E song \in {track \in Tracks : Loads(track)} : PlaySong(song)
    \/ TogglePlay
    \/ HandleNext
    \/ ToggleShuffle
    \/ ToggleRepeat
    \/ StartSucceeds
    \/ Ended

SpecShuffle == InitNav /\ [][NextShuffle]_vars

(***************************************************************************)
(* addToQueue alone, from the empty queue.  addToQueue does not look at    *)
(* the locator, so every identifier is offered as two different objects.   *)
(***************************************************************************)
EnqueueTracks == {Song(i) : i \in TrackIds} \cup {Broken(i) : i \in TrackIds}

NextEnqueue == \E song \in EnqueueTracks : AddToQueue(song)

SpecEnqueue == Init /\ [][NextEnqueue]_vars

(***************************************************************************)
(* All queue commands: addToQueue, addMultipleToQueue, removeFromQueue,    *)
(* clearQueue and playQueue, with lists that may repeat an identifier.     *)
(***************************************************************************)
NextQueue ==
    \/ \E song \in Tracks : AddToQueue(song)
    \/ \E songs \in TrackLists : AddMultipleToQueue(songs)
    \/ \E id \in TrackIds : RemoveFromQueue(id)
    \/ ClearQueue
    \/ \E songs \in TrackLists : \E index \in 0..MaxListLen : PlayQueue(songs, index)

SpecQueue == Init /\ [][NextQueue]_vars

(***************************************************************************)
(* Recently played: more distinct tracks than the list can hold are played *)
(* one after the other.  New tracks arrive in catalogue order (the next    *)
(* identifier not played so far); the two tracks of a fixed queue are      *)
(* replayed at any time through play, playQueue, next, previous and the    *)
(* "ended" event.                                                           *)
(***************************************************************************)
HistoryQueue == <<Song(1), Song(2)>>

MaxOf(S) == CHOOSE x \in S : \A y \in S : y <= x

\* the next identifier of the catalogue that was not played yet
FreshId ==
    MaxOf({recentlyPlayed[i].id : i \in 1..Len(recentlyPlayed)}
          \cup {Len(HistoryQueue)}) + 1

NextHistory ==
    \/ /\ FreshId <= MaxHistoryId
       /\ PlaySong(Song(FreshId))
    \/ \E i \in 1..Len(HistoryQueue) : PlaySong(HistoryQueue[i])
    \/ \E index \in 0..(Len(HistoryQueue) - 1) : PlayQueue(HistoryQueue, index)
    \/ TogglePlay
    \/ HandleNext
    \/ HandlePrevious
    \/ StartSucceeds
    \/ Ended

SpecHistory == Init /\ [][NextHistory]_vars

(***************************************************************************)
(* Storage failures: the session starts on a pointer-only or touch-capable *)
(* device whose localStorage works, takes no writes, or is denied          *)
(* altogether; a working storage may stop taking writes once the session   *)
(* has settled.  The commands change every state that has a save effect.   *)
(***************************************************************************)
StorageModes == {"ok", "full", "denied"}

\* well-formed contents: nothing stored, or a session that was saved
SavedStorages ==
    {EmptyStorage,
     [queue |-> Stringify(<<Song(1)>>), volume |-> StringOf(FullVolume),
      shuffle |-> "true", repeat |-> "all", recent |-> Stringify(<<Song(1)>>)]}

InitStorage ==
    /\ touch \in BOOLEAN
    /\ storageMode \in StorageModes
    /\ storage \in SavedStorages
    /\ atStart = storage
    /\ currentSong = NoSong
    /\ queue = <<>>
    /\ isPlaying = FALSE
    /\ volume = DefaultVolume
    /\ shuffle = FALSE
    /\ repeat = "off"
    /\ isMobileDevice = FALSE
    /\ recentlyPlayed = IF storageMode = "denied" THEN <<>>
                        ELSE HistoryInitializer(storage.recent)
    /\ audio = [src |-> 0, paused |-> TRUE, currentTime |-> 0]
    /\ audioVolume = FullVolume
    /\ graph = NoGraph
    /\ startPending = FALSE
    /\ toggleAwaiting = FALSE
    /\ phase = "mounting"
    /\ pending = NoPending
    /\ lastOp = OpRecord("init", "init")
    /\ currentTime = 0
    /\ duration = 0
    /\ events = {}
    /\ resumeWait = NoWait
    /\ cardTimer = NoTimer
    /\ search = NoSearch

NextStorage ==
    \/ MountEffects
    \/ MountEffectsStorageFails
    \/ Rerender
    \/ StorageFills
    \/ \E song \in {Song(1), Song(2)} : PlaySong(song)
    \/ \E song \in {Song(1), Song(2)} : AddToQueue(song)
    \/ ClearQueue
    \/ ToggleShuffle
    \/ ToggleRepeat
    \/ \E level \in {0, DefaultVolume, FullVolume} : SetVolume(level)

SpecStorage == InitStorage /\ [][NextStorage]_vars

(***************************************************************************)
(* Position and duration: a settled session with a queue of valid tracks.  *)
(* Tracks are changed by every command that can change them, playback is   *)
(* toggled and sought, and the element plays, fails, queues its events and *)
(* has them delivered to the listeners.                                    *)
(***************************************************************************)
PositionQueue == [i \in 1..(NumTracks - 1) |-> Song(i)]

\* seek targets: before the start, inside the media, at and past its end
SeekTargets == {0 - RestartThreshold, 0, RestartThreshold, Duration,
                Duration + RestartThreshold}

InitPosition ==
    /\ queue = PositionQueue
    /\ currentSong = NoSong
    /\ isPlaying = FALSE
    /\ shuffle = FALSE
    /\ repeat = "off"
    /\ recentlyPlayed = <<>>
    /\ audio = [src |-> 0, paused |-> TRUE, currentTime |-> 0]
    /\ startPending = FALSE
    /\ toggleAwaiting = FALSE
    /\ lastOp = OpRecord("init", "init")
    /\ currentTime = 0
    /\ duration = 0
    /\ events = {}
    /\ resumeWait = NoWait
    /\ cardTimer = NoTimer
    /\ search = NoSearch
    /\ SettledDefaults(FALSE)
    /\ atStart = [EmptyStorage EXCEPT !.queue = Stringify(queue)]

NextPosition ==
    \/ \E i \in 1..Len(PositionQueue) : PlaySong(PositionQueue[i])
    \/ \E index \in 0..(Len(PositionQueue) - 1) : PlayQueue(PositionQueue, index)
    \/ HandleNext
    \/ HandlePrevious
    \/ TogglePlay
    \/ \E t \in SeekTargets : SeekTo(t)
    \/ StartSucceeds
    \/ TimeAdvances
    \/ \E name \in {"timeupdate", "loadedmetadata"} : Emits(name)
    \/ \E name \in {"timeupdate", "loadedmetadata"} : Listener(name)
    \/ MediaError
    \/ Ended

SpecPosition == InitPosition /\ [][NextPosition]_vars

(***************************************************************************)
(* Playback and volume: a settled session on a pointer-only or a           *)
(* touch-capable device.  Tracks (valid or not) are played, playback is    *)
(* toggled, the device grants or refuses the start and moves the position, *)
(* and the volume is set to levels inside and outside 0..100 (on a touch   *)
(* device playSong builds the gain graph).                                 *)
(***************************************************************************)
InitVolume ==
    /\ currentSong = NoSong
    /\ queue = <<>>
    /\ isPlaying = FALSE
    /\ shuffle = FALSE
    /\ repeat = "off"
    /\ recentlyPlayed = <<>>
    /\ audio = [src |-> 0, paused |-> TRUE, currentTime |-> 0]
    /\ startPending = FALSE
    /\ toggleAwaiting = FALSE
    /\ lastOp = OpRecord("init", "init")
    /\ currentTime = 0
    /\ duration = 0
    /\ events = {}
    /\ resumeWait = NoWait
    /\ cardTimer = NoTimer
    /\ search = NoSearch
    /\ \E isTouch \in BOOLEAN : SettledDefaults(isTouch)
    /\ atStart = EmptyStorage

NextVolume ==
    \/ \E level \in Levels : SetVolume(level)
    \/ \E song \in Tracks \cup {NoSong} : PlaySong(song)
    \/ TogglePlay
    \/ ResumeResolves
    \/ StartSucceeds
    \/ StartRejected
    \/ TimeAdvances

SpecVolume == InitVolume /\ [][NextVolume]_vars

(***************************************************************************)
(* Song cards: a session on either device profile whose queue holds two    *)
(* tracks, driven by taps on the cards' Play buttons, togglePlay, next,    *)
(* the cards' timers, the audio context resuming, the start results and    *)
(* the end of the media.                                                   *)
(***************************************************************************)
InitCard ==
    /\ queue = PositionQueue
    /\ currentSong = NoSong
    /\ isPlaying = FALSE
    /\ shuffle = FALSE
    /\ repeat = "off"
    /\ recentlyPlayed = <<>>
    /\ audio = [src |-> 0, paused |-> TRUE, currentTime |-> 0]
    /\ startPending = FALSE
    /\ toggleAwaiting = FALSE
    /\ lastOp = OpRecord("init", "init")
    /\ currentTime = 0
    /\ duration = 0
    /\ events = {}
    /\ resumeWait = NoWait
    /\ cardTimer = NoTimer
    /\ search = NoSearch
    /\ \E isTouch \in BOOLEAN : SettledDefaults(isTouch)
    /\ atStart = [EmptyStorage EXCEPT !.queue = Stringify(queue)]

NextCard ==
    \/ \E song \in Tracks : CardPlay(song)
    \/ TogglePlay
    \/ HandleNext
    \/ TimerFires
    \/ ResumeResolves
    \/ StartSucceeds
    \/ StartRejected
    \/ Ended

SpecCard == InitCard /\ [][NextCard]_vars

(***************************************************************************)
(* Advancing from outside the queue: the queue is built and pruned with    *)
(* addToQueue and removeFromQueue while tracks are played directly, and    *)
(* next() and the end of the media advance.                                *)
(***************************************************************************)
\* the tracks that are enqueued: one comes with and without a locator
AdvanceTracks == {Song(1), Song(2), Broken(2)}

\* the tracks that are played directly: one of them is never enqueued
DirectTracks == {Song(1), Song(NumTracks)}

NextAdvance ==
    \/ \E song \in AdvanceTracks : AddToQueue(song)
    \/ \E id \in {track.id : track \in AdvanceTracks} : RemoveFromQueue(id)
    \/ \E song \in DirectTracks : PlaySong(song)
    \/ TogglePlay
    \/ HandleNext
    \/ ToggleRepeat
    \/ StartSucceeds
    \/ Ended

SpecAdvance == Init /\ [][NextAdvance]_vars

(***************************************************************************)
(* Frames: every command of the context value on a pointer-only session,   *)
(* with two tracks, one list, volume levels the element takes and rejects, *)
(* and seek targets inside and past the media.                             *)
(***************************************************************************)
FrameTracks == {Song(1), Song(2)}

FrameList == <<Song(2), Song(1)>>

NextFrame ==
    \/ \E song \in FrameTracks : PlaySong(song)
    \/ \E song \in FrameTracks : AddToQueue(song)
    \/ AddMultipleToQueue(FrameList)
    \/ \E song \in FrameTracks : RemoveFromQueue(song.id)
    \/ ClearQueue
    \/ ToggleShuffle
    \/ ToggleRepeat
    \/ \E level \in {0, FullVolume + LevelAbove} : SetVolume(level)
    \/ \E t \in {RestartThreshold, Duration + RestartThreshold} : SeekTo(t)
    \/ TogglePlay
    \/ StartSucceeds

SpecFrame == Init /\ [][NextFrame]_vars

(***************************************************************************)
(* The Search page.  `search.shown` is the query whose results the results *)
(* state holds (ShortInput for the empty results), `search.issued` the     *)
(* query of the request sent last, `search.flight` the requests whose      *)
(* response has not arrived.  The handlers are closures of the page; none  *)
(* of them touches the player.                                             *)
(***************************************************************************)
\* a step of the Search page leaves the player and the device alone
SearchStep(op, branch) ==
    /\ lastOp' = OpRecord(op, branch)
    /\ UNCHANGED <<currentSong, queue, isPlaying, shuffle, repeat,
                   recentlyPlayed, audio, startPending, toggleAwaiting,
                   volume, isMobileDevice, touch, audioVolume, graph, storage,
                   atStart, phase, pending, currentTime, duration, events,
                   storageMode, resumeWait, cardTimer>>

\* a request of the page that is awaiting its response
Request(kind, value) == [kind |-> kind, query |-> value]

\* handleInputChange: the old timer is cleared; a valid value arms a new one,
\* a short value empties the results and sets the mode to idle
HandleInputChange(value) ==
    /\ search' = IF value # ShortInput
                  THEN [search EXCEPT !.query = value, !.timer = value]
                  ELSE [search EXCEPT !.query = value, !.timer = ShortInput,
                                      !.mode = "idle", !.shown = ShortInput]
    /\ SearchStep("handleInputChange",
                  IF value # ShortInput THEN "debounce" ELSE "idle")

\* the debounce timer fires: handlePreviewSearch(value) runs up to its await
DebounceFires ==
    /\ search.timer # ShortInput
    /\ search' = [search EXCEPT
                      !.timer = ShortInput,
                      !.issued = search.timer,
                      !.flight = @ \cup {Request("preview", search.timer)}]
    /\ SearchStep("handlePreviewSearch", "awaits")

\* handleFullSearch on Enter, up to its await; the debounce timer stays armed
HandleFullSearch ==
    /\ search' = IF search.query = ShortInput
                  THEN search
                  ELSE [search EXCEPT
                           !.issued = search.query,
                           !.flight = @ \cup {Request("full", search.query)}]
    /\ SearchStep("handleFullSearch",
                  IF search.query = ShortInput THEN "tooShort" ELSE "awaits")

\* performPreviewSearch(value) resolves and handlePreviewSearch continues
PreviewResponds(value, result) ==
    /\ Request("preview", value) \in search.flight
    /\ search' = IF result = "error"
                  THEN [search EXCEPT
                           !.flight = @ \ {Request("preview", value)},
                           !.mode = "error"]
                  ELSE [search EXCEPT
                           !.flight = @ \ {Request("preview", value)},
                           !.shown = value,
                           !.mode = "preview"]
    /\ SearchStep("previewResponds", result)

\* performFullSearch(value, 0) resolves and handleFullSearch continues, to
\* its end or to `await getRecoveryResults(value)`
FullResponds(value, result) ==
    /\ Request("full", value) \in search.flight
    /\ search' =
           CASE result = "no-results" ->
                    [search EXCEPT
                        !.flight = (@ \ {Request("full", value)})
                                      \cup {Request("recovery", value)}]
             [] result = "error" ->
                    [search EXCEPT
                        !.flight = @ \ {Request("full", value)},
                        !.mode = "error"]
             [] OTHER ->
                    [search EXCEPT
                        !.flight = @ \ {Request("full", value)},
                        !.shown = value,
                        !.mode = "full"]
    /\ SearchStep("fullResponds", result)

\* getRecoveryResults(value) resolves: its results are shown for the query
RecoveryResponds(value) ==
    /\ Request("recovery", value) \in search.flight
    /\ search' = [search EXCEPT
                      !.flight = @ \ {Request("recovery", value)},
                      !.shown = value,
                      !.mode = "recovery"]
    /\ SearchStep("recoveryResponds", "recovery")

NextSearch ==
    \/ \E value \in SearchQueries \cup {ShortInput} : HandleInputChange(value)
    \/ DebounceFires
    \/ HandleFullSearch
    \/ \E value \in SearchQueries : \E result \in {"preview", "error"} :
           PreviewResponds(value, result)
    \/ \E value \in SearchQueries :
           \E result \in {"full", "no-results", "error"} :
               FullResponds(value, result)
    \/ \E value \in SearchQueries : RecoveryResponds(value)

SpecSearch == Init /\ [][NextSearch]_vars

(***************************************************************************)
(* Vocabulary of the properties, stated without the handlers' helpers.     *)
(***************************************************************************)
IdsOf(arr) == {arr[i].id : i \in 1..Len(arr)}

UniqueIds(arr) == Cardinality(IdsOf(arr)) = Len(arr)

HasLocator(track) == track.url # 0

\* zero-based position of the first entry of q with identifier id, -1 if none
IndexOfId(q, id) ==
    IF id \in IdsOf(q)
    THEN (CHOOSE i \in 1..Len(q) :
             q[i].id = id /\ \A j \in 1..Len(q) : q[j].id = id => i <= j) - 1
    ELSE 0 - 1

\* arr without its entries of identifier id, order kept
RECURSIVE Without(_, _)
Without(arr, id) ==
    IF arr = <<>> THEN <<>>
    ELSE IF Head(arr).id = id THEN Without(Tail(arr), id)
    ELSE <<Head(arr)>> \o Without(Tail(arr), id)

\* the first n entries of arr
RECURSIVE FirstN(_, _)
FirstN(arr, n) ==
    IF n = 0 \/ arr = <<>> THEN <<>>
    ELSE <<Head(arr)>> \o FirstN(Tail(arr), n - 1)

\* the step just taken ran one of the handlers named in ops
StepOf(ops) == lastOp'.op \in ops

\* the step just taken went through playSong and recorded the new current song
Recorded == lastOp'.branch = "loaded"

AdvanceOps == {"handleNext", "ended"}

(***************************************************************************)
(* C1  From the empty queue, after any sequence of addToQueue calls the    *)
(* queue holds no two tracks with the same identifier, and addToQueue of a *)
(* track whose identifier is already queued leaves the queue unchanged.    *)
(***************************************************************************)
C1_EnqueueIdempotent ==
    /\ [](UniqueIds(queue))
    /\ [][\A song \in EnqueueTracks :
             AddToQueue(song) /\ song.id \in IdsOf(queue) => queue' = queue]_vars

\* addToQueue was just called with an identifier that was already queued,
\* on a queue of more than one track
C1_Witness ==
    /\ lastOp.op = "addToQueue"
    /\ lastOp.branch = "present"
    /\ Len(queue) >= 2

(***************************************************************************)
(* C2  In every state reached through addToQueue, addMultipleToQueue,      *)
(* removeFromQueue, clearQueue and playQueue, with any argument lists, the *)
(* queue never holds two entries with the same identifier.                 *)
(***************************************************************************)
C2_QueueIdsUnique == UniqueIds(queue)

(***************************************************************************)
(* C3  From an empty history, through play, playQueue, next, previous and  *)
(* ended events, the recently played list has at most 20 entries and no    *)
(* two entries with the same identifier.                                   *)
(***************************************************************************)
C3_HistoryBounded ==
    /\ Len(recentlyPlayed) <= 20
    /\ UniqueIds(recentlyPlayed)

\* a track not in the list was just recorded while the list was full
C3_Witness ==
    /\ lastOp.branch = "loaded"
    /\ lastOp.full
    /\ ~lastOp.known
    /\ Len(recentlyPlayed) = 20

(***************************************************************************)
(* C4  Recording a track whose identifier is already in the history moves  *)
(* it to position 0 and leaves the length of the history unchanged; in     *)
(* particular record(t); record(t) gives the length of the first record(t) *)
(* with t at position 0 after each call.                                   *)
(***************************************************************************)
C4_RecordMovesToFront ==
    [][Recorded =>
          /\ recentlyPlayed'[1] = currentSong'
          /\ (currentSong'.id \in IdsOf(recentlyPlayed) =>
                 Len(recentlyPlayed') = Len(recentlyPlayed))
          /\ (recentlyPlayed # <<>> /\ recentlyPlayed[1].id = currentSong'.id =>
                 recentlyPlayed' = <<currentSong'>> \o Tail(recentlyPlayed))]_vars

\* a track that was in the history, behind other tracks, was just recorded
\* again and heads a history of several tracks
C4_Witness ==
    /\ lastOp.branch = "loaded"
    /\ lastOp.known
    /\ Len(recentlyPlayed) >= 3
    /\ recentlyPlayed[1] = currentSong

(***************************************************************************)
(* C5  record(track) yields the track followed by the previous history     *)
(* without its entry of the same identifier, in unchanged order, cut to    *)
(* the first 20 entries; recording a 21st distinct track drops the last    *)
(* (least recently played) entry.                                          *)
(***************************************************************************)
C5_RecordResult ==
    [][Recorded =>
          /\ recentlyPlayed' =
                FirstN(<<currentSong'>> \o Without(recentlyPlayed, currentSong'.id), 20)
          /\ (Len(recentlyPlayed) = 20 /\ currentSong'.id \notin IdsOf(recentlyPlayed) =>
                 recentlyPlayed' = <<currentSong'>> \o FirstN(recentlyPlayed, 19))]_vars

\* the track with the last identifier of the catalogue was just recorded as
\* a new entry of a full history
C5_Witness ==
    /\ lastOp.branch = "loaded"
    /\ lastOp.full
    /\ ~lastOp.known
    /\ Len(recentlyPlayed) = 20
    /\ recentlyPlayed[1].id = MaxHistoryId

(***************************************************************************)
(* Navigation properties.  The index of the current track is the first     *)
(* queue position holding its identifier (zero-based, as in the handlers). *)
(***************************************************************************)
CurrentIndex == IndexOfId(queue, currentSong.id)

LastIndex == Len(queue) - 1

\* the queue entry at a zero-based index
Entry(k) == queue[k + 1]

\* nothing of the session moved: current track, queue, history, transport
SessionUnchanged ==
    /\ currentSong' = currentSong
    /\ queue' = queue
    /\ recentlyPlayed' = recentlyPlayed
    /\ isPlaying' = isPlaying

\* the track became current through playSong
BecameCurrent(track) ==
    /\ currentSong' = track
    /\ recentlyPlayed'[1] = track
    /\ audio'.src = track.url
    /\ audio'.currentTime = 0

(***************************************************************************)
(* C6 as claimed: with shuffle off and repeat not "one", when the current  *)
(* track is at queue index i and i is not the last index, next() or an     *)
(* ended event makes the track at index i+1 the current track, for         *)
(* repeat=off and repeat=all alike.                                        *)
(***************************************************************************)
C6_NextMakesFollowingCurrent ==
    [][/\ StepOf(AdvanceOps)
       /\ ~shuffle
       /\ repeat \in {"off", "all"}
       /\ CurrentIndex >= 0
       /\ CurrentIndex < LastIndex
       => currentSong' = Entry(CurrentIndex + 1)]_vars

(***************************************************************************)
(* C6 amended: ... next() or an ended event selects the track at index     *)
(* i+1; that track becomes the current track when it has a playable-media  *)
(* locator, and otherwise the step changes nothing.                        *)
(***************************************************************************)
C6_NextSelectsFollowing ==
    [][/\ StepOf(AdvanceOps)
       /\ ~shuffle
       /\ repeat \in {"off", "all"}
       /\ CurrentIndex >= 0
       /\ CurrentIndex < LastIndex
       => /\ queue' = queue
          /\ IF HasLocator(Entry(CurrentIndex + 1))
             THEN BecameCurrent(Entry(CurrentIndex + 1))
             ELSE SessionUnchanged /\ audio'.src = audio.src]_vars

\* queue [A,B,C]: next() or ended just made C current, so it ran with B current
C6_Witness ==
    /\ lastOp.op \in AdvanceOps
    /\ lastOp.branch = "loaded"
    /\ ~shuffle
    /\ repeat \in {"off", "all"}
    /\ queue = <<Song(1), Song(2), Song(3)>>
    /\ currentSong = Song(3)
    /\ Len(recentlyPlayed) >= 2
    /\ recentlyPlayed[2] = Song(2)

(***************************************************************************)
(* C7  With shuffle off and the current track at the last queue index,     *)
(* next() / ended with repeat=all selects the track at index 0 (it is      *)
(* handed to playSong: it becomes current, or, lacking a locator, is       *)
(* turned down by playSong), and with repeat=off selects nothing: the      *)
(* current track and the queue stay as they are.                           *)
(***************************************************************************)
C7_AdvanceAtLastIndex ==
    [][/\ StepOf(AdvanceOps)
       /\ ~shuffle
       /\ CurrentIndex >= 0
       /\ CurrentIndex = LastIndex
       => /\ queue' = queue
          /\ (repeat = "all" =>
                 IF HasLocator(Entry(0))
                 THEN BecameCurrent(Entry(0))
                 ELSE SessionUnchanged /\ lastOp'.branch = "invalidTrack")
          /\ (repeat = "off" =>
                 /\ SessionUnchanged
                 /\ audio'.src = audio.src
                 /\ lastOp'.branch = "noNext")]_vars

\* queue [A,B,C], repeat=all: next() or ended just made A current after C
C7_Witness ==
    /\ lastOp.op \in AdvanceOps
    /\ lastOp.branch = "loaded"
    /\ ~shuffle
    /\ repeat = "all"
    /\ queue = <<Song(1), Song(2), Song(3)>>
    /\ currentSong = Song(1)
    /\ Len(recentlyPlayed) >= 2
    /\ recentlyPlayed[2] = Song(3)

(***************************************************************************)
(* C8  previous() invoked while the playback position is greater than 3    *)
(* seconds changes neither the current track nor the queue nor the         *)
(* history; it only resets the position to 0.                              *)
(***************************************************************************)
C8_PreviousRestarts ==
    [][/\ StepOf({"handlePrevious"})
       /\ audio.currentTime > 3
       => /\ SessionUnchanged
          /\ audio' = [audio EXCEPT !.currentTime = 0]
          /\ UNCHANGED <<shuffle, repeat, startPending, toggleAwaiting>>]_vars

\* previous() just restarted a loaded track that has a predecessor in the queue
C8_Witness ==
    /\ lastOp = OpRecord("handlePrevious", "restart")
    /\ currentSong # NoSong
    /\ CurrentIndex > 0
    /\ audio.currentTime = 0

(***************************************************************************)
(* C9 as claimed: previous() invoked while the position is at most 3       *)
(* seconds makes the track at queue index i-1 current when the current     *)
(* track is at index i > 0, and is a no-op when the current track is at    *)
(* index 0 or is not in the queue.                                         *)
(***************************************************************************)
C9_PreviousMakesPrecedingCurrent ==
    [][/\ StepOf({"handlePrevious"})
       /\ audio.currentTime <= 3
       => IF CurrentIndex > 0
          THEN currentSong' = Entry(CurrentIndex - 1)
          ELSE SessionUnchanged]_vars

(***************************************************************************)
(* C9 amended: ... selects the track at queue index i-1 when the current   *)
(* track is at index i > 0; that track becomes the current track when it   *)
(* has a playable-media locator, and otherwise the step changes nothing.   *)
(* previous() is a no-op when the current track is at index 0 or is not    *)
(* in the queue.                                                           *)
(***************************************************************************)
C9_PreviousSelectsPreceding ==
    [][/\ StepOf({"handlePrevious"})
       /\ audio.currentTime <= 3
       => /\ queue' = queue
          /\ IF CurrentIndex > 0 /\ HasLocator(Entry(CurrentIndex - 1))
             THEN BecameCurrent(Entry(CurrentIndex - 1))
             ELSE SessionUnchanged /\ audio' = audio]_vars

\* queue [A,B,C]: previous() just made B current, so it ran with C current
C9_Witness ==
    /\ lastOp.op = "handlePrevious"
    /\ lastOp.branch = "loaded"
    /\ queue = <<Song(1), Song(2), Song(3)>>
    /\ currentSong = Song(2)
    /\ Len(recentlyPlayed) >= 2
    /\ recentlyPlayed[2] = Song(3)

(***************************************************************************)
(* C10  With queue = [A], current = A and repeat=one, an ended event       *)
(* restarts A at position 0: the position is 0 and a start is requested,   *)
(* A stays the current track, the queue is unchanged and the history is    *)
(* neither extended nor reordered.                                         *)
(***************************************************************************)
C10_EndedRepeatsOne ==
    [][/\ StepOf({"ended"})
       /\ Len(queue) = 1
       /\ currentSong # NoSong
       /\ queue[1].id = currentSong.id
       /\ repeat = "one"
       => /\ SessionUnchanged
          /\ audio'.src = audio.src
          /\ audio'.currentTime = 0
          /\ startPending']_vars

\* queue [A], A current, repeat=one: the ended listener just restarted A
C10_Witness ==
    /\ lastOp = OpRecord("ended", "repeatOne")
    /\ queue = <<Song(1)>>
    /\ currentSong = Song(1)
    /\ repeat = "one"
    /\ audio.src = Song(1).url
    /\ audio.currentTime = 0
    /\ startPending

(***************************************************************************)
(* C11  On an ended event with repeat=one the current track is restarted   *)
(* at position 0 without consulting the queue: the restart (position 0, a  *)
(* start requested, same current track) happens for every queue content,   *)
(* including an empty queue and a queue that does not hold the current     *)
(* track.                                                                  *)
(***************************************************************************)
C11_EndedRestartsWhateverQueue ==
    [][/\ StepOf({"ended"})
       /\ repeat = "one"
       => /\ currentSong' = currentSong
          /\ audio'.src = audio.src
          /\ audio'.currentTime = 0
          /\ startPending']_vars

(***************************************************************************)
(* C12  For every setVolume(level), including levels above 100 and below   *)
(* 0, the resulting session volume lies in [0,100] (130 becomes 100, -10   *)
(* becomes 0); volume is in [0,100] in every reachable state.              *)
(***************************************************************************)
C12_VolumeInRange == volume >= 0 /\ volume <= 100

(***************************************************************************)
(* C13  When play(track) is issued for a valid track and the device        *)
(* rejects the start request (PlaybackBlocked), the transport state ends   *)
(* as Paused (isPlaying false, the element paused) with the track as       *)
(* current track and still loaded, the track is at the front of the        *)
(* history, and no exception is raised (the provider stays mounted).       *)
(* The track of the last play(track) is the current track; the start       *)
(* request for it is the one the tap on play makes.                        *)
(***************************************************************************)
C13_BlockedStartLeavesPaused ==
    [][/\ StepOf({"startRejected"})
       /\ currentSong # NoSong
       => /\ ~isPlaying'
          /\ audio'.paused
          /\ currentSong' = currentSong
          /\ audio'.src = currentSong.url
          /\ recentlyPlayed' = recentlyPlayed
          /\ recentlyPlayed'[1] = currentSong
          /\ phase' = "settled"]_vars

\* the start requested for a track played after another one was just refused
C13_Witness ==
    /\ lastOp.op = "startRejected"
    /\ currentSong # NoSong
    /\ Len(recentlyPlayed) >= 2
    /\ recentlyPlayed[1] = currentSong
    /\ ~isPlaying
    /\ audio.paused

(***************************************************************************)
(* Startup properties.  A stored list is well formed when it is the JSON   *)
(* text of a list of tracks; the stored volume when it is the numeral of a *)
(* level in 0..100 (numeric when it is a numeral at all); the stored       *)
(* shuffle flag when it is true or false; the stored repeat mode when it   *)
(* is off, all or one.                                                     *)
(***************************************************************************)
IsTrackList(text) ==
    /\ text.form = "json"
    /\ \A i \in 1..Len(text.value) : text.value[i].id # 0

IsLevel(text) == \E n \in 0..100 : text = ToString(n)

IsNumeral(text) == \E n \in (0 - 200)..200 : text = ToString(n)

IsFlag(text) == text \in {"true", "false"}

IsMode(text) == text \in {"off", "all", "one"}

\* startup has settled: every effect has run and none queued a change
Settled == phase = "settled"

(***************************************************************************)
(* C14  Round-trip of persisted state: for queue, shuffle and repeat on    *)
(* both device profiles, and for volume on the pointer-only profile, if    *)
(* the stored value is v when a session starts, then once startup has      *)
(* settled (capability detection, load effect and save effects have all    *)
(* run, including the re-run of the load effect when the touch-capable     *)
(* flag changes) the in-memory value equals v and the stored value still   *)
(* equals v.                                                               *)
(***************************************************************************)
C14_PersistedRoundTrip ==
    Settled =>
       /\ (IsTrackList(atStart.queue) =>
              /\ queue = atStart.queue.value
              /\ storage.queue = atStart.queue)
       /\ (IsFlag(atStart.shuffle) =>
              /\ shuffle = (atStart.shuffle = "true")
              /\ storage.shuffle = atStart.shuffle)
       /\ (IsMode(atStart.repeat) =>
              /\ repeat = atStart.repeat
              /\ storage.repeat = atStart.repeat)
       /\ (~touch /\ IsLevel(atStart.volume) =>
              /\ ToString(volume) = atStart.volume
              /\ storage.volume = atStart.volume)

(***************************************************************************)
(* C15  For any stored content (absent key, text that is not JSON, JSON    *)
(* that is not a list of tracks, a non-numeric volume, a repeat string     *)
(* outside off/all/one, a shuffle string other than true/false), startup   *)
(* completes without raising (the provider is never unmounted by an        *)
(* exception) and every affected field takes its default: empty queue,     *)
(* volume 70, shuffle off, repeat off, empty history.                      *)
(***************************************************************************)
C15_MalformedFallsBack ==
    /\ phase # "unmounted"
    /\ Settled =>
          /\ (~IsTrackList(atStart.queue) => queue = <<>>)
          /\ (~IsNumeral(atStart.volume) => volume = 70)
          /\ (~IsFlag(atStart.shuffle) => shuffle = FALSE)
          /\ (~IsMode(atStart.repeat) => repeat = "off")
          /\ (~IsTrackList(atStart.recent) => recentlyPlayed = <<>>)

(***************************************************************************)
(* C16  play(track) with an absent track or a track without a              *)
(* playable-media locator is a no-op: current track, transport state,      *)
(* position, history, queue and the media element's source are all         *)
(* unchanged and nothing is raised (the provider stays mounted, and what   *)
(* it persisted is as it was).                                             *)
(***************************************************************************)
C16_InvalidTrackIsNoOp ==
    [][\A track \in Tracks \cup {NoSong} :
          /\ track = NoSong \/ ~HasLocator(track)
          /\ PlaySong(track)
          => /\ SessionUnchanged
             /\ audio' = audio
             /\ startPending' = startPending
             /\ storage' = storage
             /\ phase' = "settled"]_vars

\* play was just called with an invalid track while another track was
\* playing, past its start
C16_Witness ==
    /\ lastOp = OpRecord("playSong", "invalidTrack")
    /\ currentSong # NoSong
    /\ isPlaying
    /\ ~audio.paused
    /\ audio.currentTime > 0

(***************************************************************************)
(* C17  play(track) with a valid track, from any state (nothing loaded, a  *)
(* start pending, playing or paused), makes the track the current track    *)
(* and puts it at the front of the history, and neither outcome of a start *)
(* request (granted or refused) changes the current track or the history.  *)
(***************************************************************************)
C17_PlayMakesCurrentAndFirst ==
    [][/\ \A track \in Tracks :
             HasLocator(track) /\ PlaySong(track)
             => /\ currentSong' = track
                /\ recentlyPlayed'[1] = track
       /\ StepOf({"startSucceeds", "startRejected"})
             => /\ currentSong' = currentSong
                /\ recentlyPlayed' = recentlyPlayed]_vars

\* a track that was further back in the history was played again
C17_Witness ==
    /\ lastOp.op = "playSong"
    /\ lastOp.branch = "loaded"
    /\ lastOp.known
    /\ Len(recentlyPlayed) >= 2
    /\ recentlyPlayed[1] = currentSong

(***************************************************************************)
(* C18  As claimed: play(track) with a valid track requests a start on the *)
(* audio output (the grant of which then makes the session Playing).       *)
(***************************************************************************)
C18_PlayRequestsStart ==
    [][\A track \in Tracks :
          HasLocator(track) /\ PlaySong(track) => startPending']_vars

(***************************************************************************)
(* C18, amended  play(track) with a valid track loads the track paused and *)
(* requests no start: the session is Paused on that track with no start    *)
(* pending.  When togglePlay has requested the start and the device grants *)
(* it, that step makes the session Playing for the current track, with no  *)
(* further command.                                                        *)
(***************************************************************************)
C18_StartWaitsForToggle ==
    [][/\ \A track \in Tracks :
             HasLocator(track) /\ PlaySong(track)
             => /\ ~startPending'
                /\ ~isPlaying'
                /\ audio'.paused
                /\ audio'.src = track.url
       /\ StepOf({"startSucceeds"}) /\ toggleAwaiting
             => /\ isPlaying'
                /\ ~audio'.paused
                /\ currentSong' = currentSong
                /\ audio'.src = currentSong.url]_vars

\* play, then togglePlay, then the grant: the track is playing
C18_Witness ==
    /\ lastOp.op = "startSucceeds"
    /\ isPlaying
    /\ ~audio.paused
    /\ currentSong # NoSong
    /\ audio.src = currentSong.url
    /\ audio.currentTime = 0

(***************************************************************************)
(* C19  As claimed: with a track loaded, togglePlay in Playing pauses the  *)
(* element and leaves the session Paused, and togglePlay in Paused         *)
(* requests a start; the grant of the start makes the session Playing and  *)
(* its refusal leaves it Paused with the provider mounted.                 *)
(***************************************************************************)
C19_ToggleSwitches ==
    [][/\ StepOf({"togglePlay"}) /\ currentSong # NoSong
             => IF isPlaying
                THEN audio'.paused /\ ~isPlaying'
                ELSE startPending' /\ ~isPlaying'
       /\ StepOf({"startSucceeds"}) /\ toggleAwaiting => isPlaying'
       /\ StepOf({"startRejected"}) /\ toggleAwaiting
             => ~isPlaying' /\ phase' = "settled"]_vars

(***************************************************************************)
(* C20  After an ended event for which no next track exists (the queue is  *)
(* empty, or repeat is off, shuffle is off and the current track is the    *)
(* last of the queue) the session is not reported as playing.              *)
(***************************************************************************)
C20_EndedWithoutNextStopsPlaying ==
    [][/\ StepOf({"ended"})
       /\ \/ Len(queue) = 0
          \/ /\ repeat = "off"
             /\ ~shuffle
             /\ CurrentIndex >= 0
             /\ CurrentIndex = LastIndex
       => ~isPlaying']_vars

(***************************************************************************)
(* C24  On a touch-capable device, from session start onward, the volume   *)
(* is never restored from storage (it stays at its default through         *)
(* startup) and the volume key is never written (it holds what it held     *)
(* when the session started); on a pointer-only device the stored volume   *)
(* is restored once startup has settled and the key holds the volume.      *)
(***************************************************************************)
C24_VolumePersistedByProfile ==
    /\ touch => /\ volume = DefaultVolume
                /\ storage.volume = atStart.volume
    /\ ~touch /\ Settled /\ IsLevel(atStart.volume) =>
          /\ ToString(volume) = atStart.volume
          /\ storage.volume = ToString(volume)

(***************************************************************************)
(* C25  On a touch-capable device with no gain graph attached, setVolume   *)
(* leaves the media element's own volume attribute as it was, and no other *)
(* command (togglePlay included) writes that attribute on that profile.    *)
(***************************************************************************)
C25_TouchLeavesElementVolume ==
    [][/\ isMobileDevice /\ ~graph.attached /\ StepOf({"setVolume"})
             => audioVolume' = audioVolume
       /\ isMobileDevice /\ ~StepOf({"setVolume"})
             => audioVolume' = audioVolume]_vars

(***************************************************************************)
(* C21  After a media error event for the loaded track the session is not  *)
(* reported as playing and no start request is left pending for the track. *)
(***************************************************************************)
C21_MediaErrorStopsSession ==
    [][StepOf({"error"}) => ~isPlaying' /\ ~startPending']_vars

(***************************************************************************)
(* C22  After every seekTo(t) with a track loaded, for t negative or past  *)
(* the end included, the position the session shows lies between 0 and the *)
(* duration of the media; and whenever the duration is known (the duration *)
(* state has been set by loadedmetadata) the position shown is at most     *)
(* that duration.                                                          *)
(***************************************************************************)
C22_PositionWithinDuration ==
    [][/\ StepOf({"seekTo"}) /\ currentSong # NoSong
             => currentTime' >= 0 /\ currentTime' <= Duration
       /\ duration' # 0 => currentTime' <= duration']_vars

(***************************************************************************)
(* C23  In the state right after a change of the current track (by         *)
(* playSong, playQueue, handleNext, handlePrevious or the ended listener)  *)
(* the position the session shows is 0: a position inside the previous     *)
(* track is never shown against the new one.                               *)
(***************************************************************************)
C23_TrackChangeShowsZero ==
    [][/\ currentSong' # currentSong
       /\ currentSong # NoSong
       /\ currentTime >= 0
       /\ currentTime <= Duration
       => currentTime' = 0]_vars

C26_StorageFailureStaysInside ==
    [][storageMode # "ok" => phase' # "unmounted"]_vars

(***************************************************************************)
(* C27  With shuffle on, repeat not "one" and a non-empty queue, next() or *)
(* an ended event always selects a member of the queue (possibly the       *)
(* current track itself), for repeat=off and repeat=all alike: the entry   *)
(* at some index inside the queue is handed to playSong (it becomes        *)
(* current, or, lacking a locator, is turned down by playSong); the step   *)
(* never ends as "no next track" and leaves the queue as it is.            *)
(***************************************************************************)
C27_ShuffleSelectsMember ==
    [][/\ StepOf(AdvanceOps)
       /\ shuffle
       /\ repeat # "one"
       /\ Len(queue) > 0
       => /\ queue' = queue
          /\ lastOp'.branch \in {"loaded", "invalidTrack"}
          /\ \E k \in 0..LastIndex :
                IF HasLocator(Entry(k))
                THEN BecameCurrent(Entry(k)) /\ lastOp'.branch = "loaded"
                ELSE SessionUnchanged /\ lastOp'.branch = "invalidTrack"]_vars

\* queue [A,B,C], repeat=off, C current at the last index and the only track
\* played so far: next() or ended under shuffle just selected C again
C27_Witness ==
    /\ lastOp.op \in AdvanceOps
    /\ lastOp.branch = "loaded"
    /\ lastOp.known
    /\ shuffle
    /\ repeat = "off"
    /\ queue = <<Song(1), Song(2), Song(3)>>
    /\ currentSong = Song(3)
    /\ recentlyPlayed = <<Song(3)>>

(***************************************************************************)
(* C28  replaceAndPlay(tracks, startIndex) is atomic: afterwards the queue *)
(* equals tracks and the current track is tracks[startIndex]; there is no  *)
(* outcome in which only one of the two took effect (the queue replaced    *)
(* while the current track is unchanged because startIndex is out of       *)
(* range or tracks[startIndex] has no locator).                            *)
(***************************************************************************)
C28_ReplaceAndPlayAtomic ==
    [][\A songs \in TrackLists : \A index \in 0..MaxListLen :
          PlayQueue(songs, index)
          => \/ /\ queue' = songs
                /\ index < Len(songs)
                /\ currentSong' = songs[index + 1]
             \/ /\ queue' = queue
                /\ currentSong' = currentSong]_vars

(***************************************************************************)
(* C29  If play(B) is issued while the start requested for an earlier      *)
(* track A is still unresolved (a togglePlay waits at `await audio.play()` *)
(* or at `await resume()`), then B is the current track, nothing plays and *)
(* no start stays requested from the element; a start result never changes *)
(* the current track, Playing is reported only by a step that leaves the   *)
(* element playing the current track's source, and a refused start leaves  *)
(* the reported transport as it was.                                       *)
(***************************************************************************)
StartUnresolved == startPending \/ resumeWait.waiting

StartResults == {"startSucceeds", "startRejected"}

Constructs == ~graph.attached /\ graph'.attached

ConstructionFails ==
    /\ Recorded
    /\ isMobileDevice
    /\ ~graph.attached
    /\ ~graph'.attached

C31_GraphBuiltOnce ==
    [][/\ graph.attached => graph'.attached
       /\ graph.attached /\ StepOf({"playSong"}) => graph' = graph
       /\ Constructs
          => /\ isMobileDevice
             /\ touch
             /\ Recorded
             /\ audio'.src # 0
             /\ graph'.state \in {"running", "suspended"}
       /\ ConstructionFails
          => /\ graph' = graph
             /\ phase' = "settled"
             /\ currentSong'.url = audio'.src
             /\ recentlyPlayed'[1] = currentSong'
       /\ StepOf({"setVolume"}) /\ ~graph.attached /\ volume' \in 0..FullVolume
          => audioVolume' = volume']_vars

\* touch device: a track was played (the graph was built), the volume was
\* changed, and the play of a second track has left the graph as it was
C31_Witness ==
    /\ lastOp.op = "playSong"
    /\ lastOp.branch = "loaded"
    /\ isMobileDevice
    /\ graph.attached
    /\ graph.gain = 0
    /\ recentlyPlayed = <<Song(2), Song(1)>>

(***************************************************************************)
(* C32  Gesture-bound operations (gain-graph construction, audio-context   *)
(* resume and the element start issued by togglePlay) are only ever        *)
(* executed within the synchronous extent of a command handler invoked     *)
(* directly by user input; they are never executed from a device event     *)
(* such as ended, from a timer, or after an asynchronous suspension point. *)
(***************************************************************************)
UserCommands ==
    {"playSong", "cardPlay", "togglePlay", "handleNext", "handlePrevious",
     "playQueue"}

\* the step ran the callback of a card's timer
FromTimer == cardTimer.set /\ ~cardTimer'.set

\* the step ran togglePlay's continuation after `await resume()`
AfterSuspension == resumeWait.waiting /\ ~resumeWait'.waiting

ResumeCalled == ~resumeWait.waiting /\ resumeWait'.waiting

StartIssuedByToggle == lastOp'.op = "togglePlay" /\ lastOp'.branch = "play"

C32_GestureBoundInGesture ==
    [][Constructs \/ ResumeCalled \/ StartIssuedByToggle
       => /\ lastOp'.op \in UserCommands
          /\ ~FromTimer
          /\ ~AfterSuspension]_vars

(***************************************************************************)
(* C33  On the touch-capable profile, whenever a gain graph is attached    *)
(* its gain equals volume/100, including in the state immediately after    *)
(* the graph is lazily constructed and before any further volume change.   *)
(***************************************************************************)
C33_GainFollowsVolume ==
    isMobileDevice /\ graph.attached => graph.gain = volume

(***************************************************************************)
(* C34  At every quiescent state (no start request in flight and no        *)
(* undelivered device event), the session reports Playing (isPlaying true) *)
(* if and only if the media element is actually playing (a source is       *)
(* loaded and it is neither paused nor ended); this holds in particular    *)
(* after next() with repeat=one issued while Paused and after an ended     *)
(* event with no next track.                                               *)
(***************************************************************************)
Quiescent ==
    /\ ~startPending
    /\ ~toggleAwaiting
    /\ ~resumeWait.waiting
    /\ ~cardTimer.set
    /\ events = {}

ElementPlaying == audio.src # 0 /\ ~audio.paused

C34_PlayingIffElementPlays == Quiescent => (isPlaying <=> ElementPlaying)

(***************************************************************************)
(* C36 as claimed: if the current track's identifier is not in the queue   *)
(* (it was played directly, removed from the queue, or nothing is loaded)  *)
(* and the queue is non-empty, next() or an ended event with shuffle off   *)
(* and repeat not "one" makes the first queue entry (index 0) the current  *)
(* track, for repeat=off and repeat=all alike.                             *)
(***************************************************************************)
CurrentOutsideQueue == CurrentIndex = 0 - 1 /\ Len(queue) > 0

C36_NextMakesFirstCurrent ==
    [][/\ StepOf(AdvanceOps)
       /\ ~shuffle
       /\ repeat \in {"off", "all"}
       /\ CurrentOutsideQueue
       => currentSong' = Entry(0)]_vars

(***************************************************************************)
(* C36 amended: ... next() or an ended event selects the first queue entry *)
(* (index 0); that entry becomes the current track when it has a           *)
(* playable-media locator, and otherwise the step changes nothing.         *)
(***************************************************************************)
C36_NextSelectsFirst ==
    [][/\ StepOf(AdvanceOps)
       /\ ~shuffle
       /\ repeat \in {"off", "all"}
       /\ CurrentOutsideQueue
       => /\ queue' = queue
          /\ IF HasLocator(Entry(0))
             THEN BecameCurrent(Entry(0)) /\ lastOp'.branch = "loaded"
             ELSE SessionUnchanged /\ lastOp'.branch = "invalidTrack"]_vars

\* C was played directly while the queue held [A,B]; next() or ended, with
\* repeat off, has just made A current
C36_Witness ==
    /\ lastOp.op \in AdvanceOps
    /\ lastOp.branch = "loaded"
    /\ ~lastOp.known
    /\ repeat = "off"
    /\ queue = <<Song(1), Song(2)>>
    /\ currentSong = Song(1)
    /\ recentlyPlayed = <<Song(1), Song(NumTracks)>>

(***************************************************************************)
(* C35  Tapping Play on the card of a track that is not the current one,   *)
(* from any prior state including another track Playing, ends with the     *)
(* tapped track current and, when the start succeeds, Playing: the         *)
(* deferred togglePlay of a tap that loaded its track requests the start   *)
(* of that track (at the element, or behind the resume of the audio        *)
(* context); it never pauses the tapped track on the strength of the       *)
(* transport state captured before the tap.                                *)
(***************************************************************************)
C35_CardTapStarts ==
    [][/\ FromTimer
       /\ lastOp.op = "cardPlay"
       /\ lastOp.branch = "loaded"
       => /\ currentSong' = currentSong
          /\ lastOp'.branch \in {"play", "awaitsResume"}
          /\ resumeWait'.waiting => ~resumeWait'.isPlaying
          /\ ~resumeWait'.waiting => startPending' /\ toggleAwaiting']_vars

(***************************************************************************)
(* C37  Frame conditions of the commands: enqueue, enqueueAll, remove      *)
(* (also of the current track's identifier), clear, toggleShuffle,         *)
(* toggleRepeat, setVolume and seek leave the current track, the transport *)
(* state and the history unchanged; play(track) leaves the queue, shuffle, *)
(* repeat and volume unchanged.                                            *)
(***************************************************************************)
FramedOps ==
    {"addToQueue", "addMultipleToQueue", "removeFromQueue", "clearQueue",
     "toggleShuffle", "toggleRepeat", "setVolume", "seekTo"}

C37_CommandFrames ==
    [][/\ StepOf(FramedOps)
          => /\ currentSong' = currentSong
             /\ isPlaying' = isPlaying
             /\ audio'.paused = audio.paused
             /\ audio'.src = audio.src
             /\ startPending' = startPending
             /\ recentlyPlayed' = recentlyPlayed
       /\ StepOf({"playSong"})
          => /\ queue' = queue
             /\ shuffle' = shuffle
             /\ repeat' = repeat
             /\ volume' = volume]_vars

\* the queue was cleared while a track of it was playing: the track is
\* still current and still playing
C37_Witness ==
    /\ lastOp.op = "clearQueue"
    /\ queue = <<>>
    /\ currentSong = Song(1)
    /\ isPlaying
    /\ ~audio.paused
    /\ recentlyPlayed = <<Song(1), Song(2)>>

(***************************************************************************)
(* C38  toggleRepeat cycles the repeat mode off -> all -> one -> off, so   *)
(* three consecutive toggles from any of the three modes return the        *)
(* original mode (after one toggle, two more lead back) and the mode stays *)
(* within {off, all, one}; toggleShuffle applied twice returns the         *)
(* original shuffle flag (each application negates it).                    *)
(***************************************************************************)
RepeatModes == {"off", "all", "one"}

C38_TogglesCycle ==
    [][/\ StepOf({"toggleRepeat"}) /\ repeat \in RepeatModes
          => /\ repeat' \in RepeatModes
             /\ repeat = "off" => repeat' = "all"
             /\ repeat = "all" => repeat' = "one"
             /\ repeat = "one" => repeat' = "off"
             /\ RepeatUpdater(RepeatUpdater(repeat')) = repeat
       /\ StepOf({"toggleShuffle"})
          => /\ shuffle' \in BOOLEAN
             /\ shuffle' = (~shuffle)
             /\ (~shuffle') = shuffle]_vars

\* the third toggleRepeat in a row has closed the cycle, with shuffle on
C38_Witness ==
    /\ lastOp.op = "toggleRepeat"
    /\ repeat = "off"
    /\ shuffle
    /\ storage.repeat = "off"
    /\ storage.shuffle = BoolText(TRUE)

(***************************************************************************)
(* C39  Every change of the history is persisted: at every quiescent       *)
(* state (the provider is mounted and the effects of the last render have  *)
(* run) the recently-played list held in storage is the serialised         *)
(* in-memory history, same tracks in the same order, and the stored queue  *)
(* is the serialised in-memory queue.                                      *)
(***************************************************************************)
C39_StoredListsFollowMemory ==
    phase = "settled"
        => /\ storage.recent = Stringify(recentlyPlayed)
           /\ Parse(storage.recent) = recentlyPlayed
           /\ storage.queue = Stringify(queue)
           /\ Parse(storage.queue) = queue

\* a play has put a second track at the head of the history, with one
\* track in the queue, and both lists are in storage
C39_Witness ==
    /\ phase = "settled"
    /\ lastOp.op = "playSong"
    /\ recentlyPlayed = <<Song(2), Song(1)>>
    /\ storage.recent = Stringify(<<Song(2), Song(1)>>)
    /\ queue = <<Song(1)>>
    /\ storage.queue = Stringify(<<Song(1)>>)

(***************************************************************************)
(* C40  In the search page, when responses arrive in an order different    *)
(* from the order of the requests, the displayed results and mode          *)
(* correspond to the most recently issued query: while the page shows the  *)
(* results of the query requested last, the response to a request for      *)
(* another query changes neither the results nor the mode.                 *)
(***************************************************************************)
ShowsLatest ==
    /\ search.issued # ShortInput
    /\ search.shown = search.issued
    /\ search.mode \in {"preview", "full", "recovery"}

C40_LateResponseDropped ==
    [][\A req \in search.flight :
          /\ ShowsLatest
          /\ req \notin search'.flight
          /\ req.query # search.issued
          => /\ search'.shown = search.shown
             /\ search'.mode = search.mode]_vars

====
